---- MODULE Spec2Model ----
(***************************************************************************)
(* The GSC ledger: Transaction, Block and GSCBlockchain                    *)
(* (src/gsc-complete/blockchain/Transaction.js, src/unnamed/part_000,      *)
(* src/gsc-web/server/blockchain/Blockchain.js).                           *)
(*                                                                         *)
(* Amounts are whole GSC, except in the section on Numbers with           *)
(* fractions.  Timestamps are milliseconds counted from the genesis        *)
(* timestamp.  A SHA-256 digest is the tuple <<"sha256", ...>> of what was *)
(* fed to the hash, so two digests are equal exactly when their inputs     *)
(* are; the number of leading zero hex digits of a digest is a fixed       *)
(* function of its input (LeadingZeros).                                   *)
(***************************************************************************)
EXTENDS Integers, Sequences, FiniteSets, TLC

VARIABLES chain, mempool, balances, isMining, difficulty, currentSupply,
          frame, ret, disk

vars == <<chain, mempool, balances, isMining, difficulty, currentSupply,
          frame, ret, disk>>

(***************************************************************************)
(* Program constants                                                       *)
(***************************************************************************)
genesisAddress == "GSC1705641e65321ef23ac5fb3d470f39627"

genesisReward == 255

miningReward == 50

LedgerDifficulty == 5

GenesisDifficulty == 1

GenesisTimestamp == 0

MaxTxPerBlock == 10

ProgressInterval == 1000

(***************************************************************************)
(* Bounds of the model                                                     *)
(***************************************************************************)
MaxChain == 3

MaxMempool == 2

BurstLen == 11

\* the values Date.now() takes
Times == {1}

(***************************************************************************)
(* Digests                                                                 *)
(***************************************************************************)
\* '0'.repeat(64), the previous hash of the genesis block
ZeroHash == <<"0000000000000000000000000000000000000000000000000000000000000000">>

\* a field that has not been assigned yet (JavaScript undefined)
Undefined == <<"undefined">>

Min(S) == CHOOSE x \in S : \A y \in S : x <= y

(***************************************************************************)
(* Transaction                                                             *)
(***************************************************************************)
\* sha256(sender + receiver + amount + fee + timestamp): string concatenation
TxCalculateHash(tx) ==
    <<"sha256", tx.sender \o tx.receiver \o ToString(tx.amount)
                 \o ToString(tx.fee) \o ToString(tx.timestamp)>>

NewTransaction(sender, receiver, amount, fee, timestamp) ==
    LET t == [sender |-> sender, receiver |-> receiver, amount |-> amount,
              fee |-> fee, timestamp |-> timestamp, signature |-> "",
              txId |-> Undefined]
    IN  [t EXCEPT !.txId = TxCalculateHash(t)]

IsSystemSender(s) == s = "COINBASE" \/ s = "GENESIS"

\* parseFloat of a text that is no number; a number that no amount of the
\* model takes stands for it
NaN == 0 - 999999

\* a <= b and a < b of JavaScript: false when either side is NaN
JsLeq(a, b) == a # NaN /\ b # NaN /\ a <= b

JsLt(a, b) == a # NaN /\ b # NaN /\ a < b

TxIsValid(tx) ==
    IF tx.sender = "" \/ tx.receiver = "" THEN FALSE
    ELSE IF JsLeq(tx.amount, 0) THEN FALSE
    ELSE IF JsLt(tx.fee, 0) THEN FALSE
    ELSE IF IsSystemSender(tx.sender) THEN TRUE
    ELSE tx.txId = TxCalculateHash(tx)

(***************************************************************************)
(* Block                                                                   *)
(***************************************************************************)
\* sha256(index + previousHash + timestamp + JSON.stringify(transactions)
\*        + nonce + merkleRoot)
BlockCalculateHash(b) ==
    <<"sha256", b.index, b.previousHash, b.timestamp, b.transactions,
      b.nonce, b.merkleRoot>>

RECURSIVE MerkleLevel(_)
\* one pass of the pairing loop: hashes[i] with hashes[i+1], the last one
\* with itself when the level has an odd count
MerkleLevel(hashes) ==
    IF Len(hashes) = 0 THEN <<>>
    ELSE IF Len(hashes) = 1 THEN <<<<"sha256", hashes[1], hashes[1]>>>>
    ELSE <<<<"sha256", hashes[1], hashes[2]>>>>
         \o MerkleLevel(SubSeq(hashes, 3, Len(hashes)))

RECURSIVE MerkleReduce(_)
MerkleReduce(hashes) ==
    IF Len(hashes) > 1 THEN MerkleReduce(MerkleLevel(hashes)) ELSE hashes[1]

\* a root that is the digest of the set of leaves
CalculateMerkleRoot_Unordered(b) ==
    <<"sha256", {b.transactions[i].txId : i \in 1..Len(b.transactions)}>>

CalculateMerkleRoot(b) ==
    IF Len(b.transactions) = 0 THEN <<"sha256", "">>
    ELSE MerkleReduce([i \in 1..Len(b.transactions) |->
             IF b.transactions[i].txId # Undefined
             THEN b.transactions[i].txId
             ELSE TxCalculateHash(b.transactions[i])])

\* The constructor assigns hash before merkleRoot, so the first hash is
\* computed while merkleRoot is still undefined.
NewBlock(index, transactions, timestamp, previousHash, nonce, diff) ==
    LET b0 == [index |-> index, timestamp |-> timestamp,
               transactions |-> transactions, previousHash |-> previousHash,
               nonce |-> nonce, difficulty |-> diff, hash |-> Undefined,
               merkleRoot |-> Undefined, miner |-> "", reward |-> 0]
        b1 == [b0 EXCEPT !.hash = BlockCalculateHash(b0)]
    IN  [b1 EXCEPT !.merkleRoot = CalculateMerkleRoot(b1)]

\* The digest model: how many leading zero hex digits a digest has.  For a
\* block digest it depends on the hashed fields only.  A digest taken while
\* merkleRoot was undefined has 5 for some inputs; afterwards, within
\* every NoncePeriod nonces one nonce gives 5 and one gives 1, the rest 0.
NoncePeriod == 3000

Win5(seed) == <<2, 1200, 2000>>[(seed % 3) + 1]

Win1(seed) == 43 + (seed % 2)

DigestSeed(h) == h[2] + h[4] + Len(h[5])

LeadingZeros(h) ==
    IF h = ZeroHash THEN 64
    ELSE IF Len(h) # 7 THEN 0
    ELSE IF h[7] = Undefined
         THEN (IF (DigestSeed(h) + h[6]) % 9 = 6 THEN 5 ELSE 0)
    ELSE IF h[6] % NoncePeriod = Win5(DigestSeed(h)) THEN 5
    ELSE IF h[6] % NoncePeriod = Win1(DigestSeed(h)) THEN 1
    ELSE 0

\* hash.substring(0, d) === '0'.repeat(d), hash.startsWith('0'.repeat(d))
MeetsTarget(h, d) == LeadingZeros(h) >= d

\* this.nonce = n; this.hash = this.calculateHash()
WithNonce(b, n) ==
    LET b1 == [b EXCEPT !.nonce = n]
    IN  [b1 EXCEPT !.hash = BlockCalculateHash(b1)]

\* the least n > n0 with n % p = r
NextInClass(n0, r, p) == n0 + 1 + ((r - n0 - 1) % p)

\* The nonce at which the search loop, incrementing from b.nonce, first
\* either meets the target or reaches the progress report (nonce % 1000 = 0).
\* Only the nonces of the two winning classes and the next multiple of the
\* interval can be that nonce.
NextStop(b, d) ==
    LET seed == DigestSeed(BlockCalculateHash(b))
        cand == {NextInClass(b.nonce, Win5(seed), NoncePeriod),
                 NextInClass(b.nonce, Win1(seed), NoncePeriod),
                 NextInClass(b.nonce, 0, ProgressInterval)}
    IN  Min({n \in cand : \/ n % ProgressInterval = 0
                          \/ MeetsTarget(WithNonce(b, n).hash, d)})

RECURSIVE MineLoop(_, _, _)
\* while (hash does not meet the target) { nonce++; hash = calculateHash();
\*   if (nonce % 1000 === 0 && callback) callback(...) }
\* run until the loop ends (paused = FALSE) or the callback is entered
\* (paused = TRUE); after the callback returns the loop goes on from there.
MineLoop(b, d, cb) ==
    IF MeetsTarget(b.hash, d) THEN [block |-> b, paused |-> FALSE]
    ELSE LET b1 == WithNonce(b, NextStop(b, d))
         IN  IF b1.nonce % ProgressInterval = 0 /\ cb
             THEN [block |-> b1, paused |-> TRUE]
             ELSE MineLoop(b1, d, cb)

\* mineBlock(difficulty, minerAddress, callback)
MineBlock(b, d, minerAddress, cb) ==
    MineLoop([b EXCEPT !.miner = minerAddress], d, cb)

AllTxValid(txs) == \A i \in 1..Len(txs) : TxIsValid(txs[i])

\* isValid without the comparison with the previous block's hash
BlockIsValid_NoPreviousCheck(b, previousBlock) ==
    IF b.hash # BlockCalculateHash(b) THEN FALSE
    ELSE IF ~MeetsTarget(b.hash, b.difficulty) THEN FALSE
    ELSE IF b.merkleRoot # CalculateMerkleRoot(b) THEN FALSE
    ELSE AllTxValid(b.transactions)

\* '0'.repeat(this.difficulty) raises a RangeError for a negative count; the
\* call gets there once the hash and the previous hash have passed.
\* previous is <<>> when no previous block is passed, <<block>> otherwise
BlockIsValidThrows(b, previous) ==
    /\ b.hash = BlockCalculateHash(b)
    /\ previous = <<>> \/ b.previousHash = previous[1].hash
    /\ b.difficulty < 0

\* isValid() with no previous block passed: the comparison with the
\* previous block's hash is skipped
BlockIsValidAlone(b) ==
    IF b.hash # BlockCalculateHash(b) THEN FALSE
    ELSE IF ~MeetsTarget(b.hash, b.difficulty) THEN FALSE
    ELSE IF b.merkleRoot # CalculateMerkleRoot(b) THEN FALSE
    ELSE AllTxValid(b.transactions)

\* isValid(previousBlock); the ledger always passes a previous block
BlockIsValid(b, previousBlock) ==
    IF b.hash # BlockCalculateHash(b) THEN FALSE
    ELSE IF b.previousHash # previousBlock.hash THEN FALSE
    ELSE IF ~MeetsTarget(b.hash, b.difficulty) THEN FALSE
    ELSE IF b.merkleRoot # CalculateMerkleRoot(b) THEN FALSE
    ELSE AllTxValid(b.transactions)

(***************************************************************************)
(* GSCBlockchain                                                           *)
(***************************************************************************)
halvingInterval == 1051200

GetLatestBlock(ch) == ch[Len(ch)]

\* this.balances[address] || 0
BalanceOf(bal, address) == IF address \in DOMAIN bal THEN bal[address] ELSE 0

GetBalance(address) == BalanceOf(balances, address)

\* if (!bal[a]) bal[a] = 0; bal[a] += v
Credit(bal, a, v) ==
    [x \in DOMAIN bal \cup {a} |->
        IF x = a THEN BalanceOf(bal, a) + v ELSE bal[x]]

\* the loop body with the sender debited the amount but not the fee
ApplyTransaction_DebitAmountOnly(bal, tx, miner) ==
    LET b1 == IF ~IsSystemSender(tx.sender)
              THEN Credit(bal, tx.sender, 0 - tx.amount) ELSE bal
        b2 == Credit(b1, tx.receiver, tx.amount)
    IN  IF tx.sender # "COINBASE" /\ miner # ""
        THEN Credit(b2, miner, tx.fee) ELSE b2

\* the body of the inner loop of updateBalances for one transaction
ApplyTransaction(bal, tx, miner) ==
    LET b1 == IF ~IsSystemSender(tx.sender)
              THEN Credit(bal, tx.sender, 0 - (tx.amount + tx.fee)) ELSE bal
        b2 == Credit(b1, tx.receiver, tx.amount)
    IN  IF tx.sender # "COINBASE" /\ miner # ""
        THEN Credit(b2, miner, tx.fee) ELSE b2

RECURSIVE ApplyBlock(_, _, _)
ApplyBlock(bal, txs, miner) ==
    IF txs = <<>> THEN bal
    ELSE ApplyBlock(ApplyTransaction(bal, Head(txs), miner), Tail(txs), miner)

RECURSIVE ApplyChain(_, _)
ApplyChain(bal, ch) ==
    IF ch = <<>> THEN bal
    ELSE ApplyChain(ApplyBlock(bal, Head(ch).transactions, Head(ch).miner),
                    Tail(ch))

\* this.balances = {}; then every transaction of every block in chain order
UpdateBalances(ch) == ApplyChain(<<>>, ch)

\* the table kept instead of being emptied
ResetBalances_Keep(bal) == bal

\* this.balances = {}
ResetBalances(bal) == <<>>

\* updateBalances() called while the table is bal
UpdateBalancesFrom(bal, ch) == ApplyChain(ResetBalances(bal), ch)

\* miningReward / 2^halvings is a fraction once halvings > 0; the chains of
\* this model stay below the first halving, where it is miningReward.
GetCurrentReward(ch) ==
    LET blockHeight == Len(ch) - 1
    IN  IF blockHeight = 0 THEN miningReward
        ELSE LET halvings == (blockHeight - 1) \div halvingInterval
             IN  IF halvings >= 64 THEN 0
                 ELSE miningReward \div (2 ^ halvings)

\* isChainValid(): every block from index 1 on passes isValid(previous)
IsChainValid(ch) == \A i \in 2..Len(ch) : BlockIsValid(ch[i], ch[i - 1])

\* Math.floor((blockHeight - 1) / this.halvingInterval), for blockHeight >= 1
Halvings(blockHeight) == (blockHeight - 1) \div halvingInterval

\* the reward paid while every interval doubles it instead of halving it
RewardAtHeight_Doubling(blockHeight) ==
    IF blockHeight = 0 THEN [num |-> miningReward, exp |-> 0]
    ELSE [num |-> miningReward * (2 ^ Halvings(blockHeight)), exp |-> 0]

\* getCurrentReward() on a chain of blockHeight + 1 blocks, as the exact
\* fraction num / 2^exp
RewardAtHeight(blockHeight) ==
    IF blockHeight = 0 THEN [num |-> miningReward, exp |-> 0]
    ELSE IF Halvings(blockHeight) >= 64 THEN [num |-> 0, exp |-> 0]
    ELSE [num |-> miningReward, exp |-> Halvings(blockHeight)]

RECURSIVE SumCost(_)
\* senderTxs.reduce((sum, tx) => sum + tx.amount + tx.fee, 0)
SumCost(txs) ==
    IF txs = <<>> THEN 0
    ELSE Head(txs).amount + Head(txs).fee + SumCost(Tail(txs))

RECURSIVE SumFee(_)
SumFee(txs) == IF txs = <<>> THEN 0 ELSE Head(txs).fee + SumFee(Tail(txs))

\* this.mempool.filter(tx => tx.sender === sender)
SenderTxs(mp, sender) == SelectSeq(mp, LAMBDA t : t.sender = sender)

\* the check without the sender's pending transactions
IsTransactionValid_NoPending(tx) == TxIsValid(tx)

IsTransactionValid(tx) ==
    IF ~TxIsValid(tx) THEN FALSE
    ELSE SumCost(SenderTxs(mempool, tx.sender)) + tx.amount + tx.fee
            <= GetBalance(tx.sender)

\* the returned value without the search for the txId in the mempool
SubmitResult_NoDuplicateCheck(tx) ==
    IF ~IsTransactionValid(tx)
    THEN [success |-> FALSE, message |-> "Invalid transaction"]
    ELSE IF GetBalance(tx.sender) < tx.amount + tx.fee
    THEN [success |-> FALSE, message |-> "Insufficient balance"]
    ELSE [success |-> TRUE, message |-> "Transaction added to mempool"]

\* the returned {success, message} of addTransactionToMempool
SubmitResult(tx) ==
    IF ~IsTransactionValid(tx)
    THEN [success |-> FALSE, message |-> "Invalid transaction"]
    ELSE IF GetBalance(tx.sender) < tx.amount + tx.fee
    THEN [success |-> FALSE, message |-> "Insufficient balance"]
    ELSE IF \E i \in 1..Len(mempool) : mempool[i].txId = tx.txId
    THEN [success |-> FALSE, message |-> "Transaction already in mempool"]
    ELSE [success |-> TRUE, message |-> "Transaction added to mempool"]

\* the early returns of minePendingTransactions
MineIsNoOp(forceMine) ==
    IF Len(mempool) = 0 /\ ~forceMine THEN TRUE
    ELSE isMining

\* what the early return logs
NoOpMessage(forceMine) ==
    IF Len(mempool) = 0 /\ ~forceMine
    THEN "No transactions in mempool"
    ELSE "Mining already in progress..."

\* the whole mempool selected, without the cap
SelectTransactions_NoCap(mp) == mp

\* the newest ten taken instead of the oldest: mempool.slice(-10)
SelectTransactions_Newest(mp) ==
    SubSeq(mp, Len(mp) - Min({MaxTxPerBlock, Len(mp)}) + 1, Len(mp))

\* this.mempool.slice(0, 10)
SelectTransactions(mp) == SubSeq(mp, 1, Min({MaxTxPerBlock, Len(mp)}))

\* findIndex(mempoolTx => mempoolTx.txId === id), then splice(index, 1)
RemoveById(mp, id) ==
    IF \E i \in 1..Len(mp) : mp[i].txId = id
    THEN LET k == Min({i \in 1..Len(mp) : mp[i].txId = id})
         IN  SubSeq(mp, 1, k - 1) \o SubSeq(mp, k + 1, Len(mp))
    ELSE mp

\* the last of the mined transactions left in the mempool
RemoveMined_ButLast(mp, selected) ==
    SelectSeq(mp, LAMBDA t : \A i \in 1..(Len(selected) - 1) :
                                 selected[i].txId # t.txId)

RECURSIVE RemoveMined(_, _)
\* selectedTransactions.forEach(tx => remove tx.txId from the mempool)
RemoveMined(mp, selected) ==
    IF selected = <<>> THEN mp
    ELSE RemoveMined(RemoveById(mp, Head(selected).txId), Tail(selected))

\* the candidate with a reward transaction that leaves the fees out
CandidateBlock_RewardOnly(minerAddress, now) ==
    LET selected == SelectTransactions(mempool)
        currentReward == GetCurrentReward(chain)
        coinbase == NewTransaction("COINBASE", minerAddress, currentReward,
                                   0, now)
        nb == NewBlock(Len(chain), <<coinbase>> \o selected, now,
                       GetLatestBlock(chain).hash, 0, difficulty)
    IN  [nb EXCEPT !.reward = currentReward, !.miner = minerAddress]

\* the candidate block of minePendingTransactions, before it is mined
CandidateBlock(minerAddress, now) ==
    LET selected == SelectTransactions(mempool)
        currentReward == GetCurrentReward(chain)
        coinbase == NewTransaction("COINBASE", minerAddress,
                                   currentReward + SumFee(selected), 0, now)
        nb == NewBlock(Len(chain), <<coinbase>> \o selected, now,
                       GetLatestBlock(chain).hash, 0, difficulty)
    IN  [nb EXCEPT !.reward = currentReward, !.miner = minerAddress]

\* addBlock pushing whatever it is given
AddBlockAccepts_Always(b) == TRUE

\* addBlock: whether the block is pushed
AddBlockAccepts(b) == BlockIsValid(b, GetLatestBlock(chain))

\* the flag reset on the normal path only, without the finally clause
FlagOnExit_NoFinally(threw) == threw

\* the value of isMining when minePendingTransactions is left (finally)
FlagOnExit(threw) == FALSE

\* the early return placed inside the try, so that finally resets the flag
FlagOnEarlyReturn_Reset == FALSE

\* the value of isMining after an early return, which is outside the try
FlagOnEarlyReturn == isMining

(***************************************************************************)
(* Persistence: data/blockchain.json                                       *)
(*                                                                         *)
(* disk.writable tells whether writeFileSync succeeds; disk.file is <<>>   *)
(* when the file does not exist and <<content>> otherwise, where           *)
(* content.parses tells whether JSON.parse accepts the text and            *)
(* content.data is the parsed document.  A field of the document is <<>>   *)
(* when the document has no such key and <<value>> otherwise; an entry of  *)
(* its mempool array is <<>> for null and <<object>> otherwise.            *)
(***************************************************************************)
\* storage that cannot be written, with no file
NoStorage == [writable |-> FALSE, file |-> <<>>]

\* Transaction.toJSON
TxToJSON(tx) ==
    [sender |-> tx.sender, receiver |-> tx.receiver, amount |-> tx.amount,
     fee |-> tx.fee, timestamp |-> tx.timestamp, signature |-> tx.signature,
     txId |-> tx.txId]

\* a timestamp that is 0, null or undefined.  Timestamps are milliseconds
\* since the genesis timestamp, so none of them is the number 0 of the
\* program
NoTimestamp == 0 - 1

\* timestamp || Date.now()
TimestampOrNow(timestamp, now) ==
    IF timestamp = NoTimestamp THEN now ELSE timestamp

\* Transaction.fromJSON with the txId left as the constructor computed it
TxFromJSON_Recompute(data, now) ==
    LET tx == NewTransaction(data.sender, data.receiver, data.amount,
                             data.fee, TimestampOrNow(data.timestamp, now))
    IN  [tx EXCEPT !.signature = data.signature]

\* Transaction.fromJSON at time now: the constructor, then signature and
\* txId taken from the data
TxFromJSON(data, now) ==
    LET tx == NewTransaction(data.sender, data.receiver, data.amount,
                             data.fee, TimestampOrNow(data.timestamp, now))
    IN  [tx EXCEPT !.signature = data.signature, !.txId = data.txId]

\* Block.toJSON
BlockToJSON(b) ==
    [index |-> b.index, timestamp |-> b.timestamp,
     transactions |-> [i \in 1..Len(b.transactions) |->
                          TxToJSON(b.transactions[i])],
     previousHash |-> b.previousHash, nonce |-> b.nonce, hash |-> b.hash,
     merkleRoot |-> b.merkleRoot, difficulty |-> b.difficulty,
     miner |-> b.miner, reward |-> b.reward]

\* Block.fromJSON at time now: the constructor, then hash, merkleRoot, miner and reward
\* taken from the data
BlockFromJSON(data, now) ==
    LET transactions == [i \in 1..Len(data.transactions) |->
                            TxFromJSON(data.transactions[i], now)]
        block == NewBlock(data.index, transactions,
                          TimestampOrNow(data.timestamp, now),
                          data.previousHash, data.nonce, data.difficulty)
    IN  [block EXCEPT !.hash = data.hash, !.merkleRoot = data.merkleRoot,
                      !.miner = data.miner, !.reward = data.reward]

\* the object saveBlockchain serialises
Document(ch, mp, bal, supply) ==
    [chain |-> <<[i \in 1..Len(ch) |-> BlockToJSON(ch[i])]>>,
     mempool |-> <<[i \in 1..Len(mp) |-> <<TxToJSON(mp[i])>>]>>,
     balances |-> <<bal>>,
     currentSupply |-> <<supply>>]

\* saveBlockchain leaving the file as it is
SaveBlockchain_Skipped(d, ch, mp, bal, supply) == d

\* saveBlockchain: the file is replaced, or the error is logged
SaveBlockchain(d, ch, mp, bal, supply) ==
    IF d.writable
    THEN [d EXCEPT !.file = <<[parses |-> TRUE,
                               data |-> Document(ch, mp, bal, supply)]>>]
    ELSE d

(***************************************************************************)
(* The calls the ledger receives                                           *)
(***************************************************************************)
UserAddress == "GSCuserX"

MinerAddress == "GSCminerM"

\* transactions a caller submits: transfers of the genesis address that fit
\* its balance alone but not together, a transfer of the user, a transfer of
\* amount 0 and one whose identifier was overwritten
TxInputs ==
    {NewTransaction(genesisAddress, UserAddress, 10, 1, 1),
     NewTransaction(genesisAddress, UserAddress, 250, 1, 1),
     NewTransaction(UserAddress, genesisAddress, 10, 1, 1),
     NewTransaction(genesisAddress, UserAddress, 0, 1, 1),
     [NewTransaction(genesisAddress, UserAddress, 10, 1, 1)
         EXCEPT !.txId = <<"sha256", "forged">>]}

\* the k-th of a burst of small transfers, submitted one per millisecond
BurstTx(k) == NewTransaction(genesisAddress, UserAddress, 1, 0, 100 + k)

\* a block built outside the ledger with the Block constructor and, when
\* mined, mineBlock at the difficulty it declares
ExternalBlock(index, txs, previousHash, d, mined, miner) ==
    LET nb == NewBlock(index, txs, 1, previousHash, 0, d)
    IN  IF mined THEN MineBlock(nb, d, miner, FALSE).block ELSE nb

\* the blocks handed to addBlock: mined on the tip at the ledger's difficulty
\* (a reward alone, with a transfer, with a transfer of amount 0), mined at
\* difficulty 1, not mined, and mined on another previous hash
ExternalBlocks ==
    LET tip == GetLatestBlock(chain).hash
        n == Len(chain)
        cb == NewTransaction("COINBASE", MinerAddress, miningReward, 0, 1)
        pay == NewTransaction(genesisAddress, UserAddress, 250, 1, 1)
        bad == NewTransaction(genesisAddress, UserAddress, 0, 1, 1)
    IN  {ExternalBlock(n, <<cb>>, tip, LedgerDifficulty, TRUE, MinerAddress),
         ExternalBlock(n, <<cb, pay>>, tip, LedgerDifficulty, TRUE, MinerAddress),
         ExternalBlock(n, <<cb, bad>>, tip, LedgerDifficulty, TRUE, MinerAddress),
         ExternalBlock(n, <<cb>>, tip, GenesisDifficulty, TRUE, MinerAddress),
         ExternalBlock(n, <<cb>>, tip, LedgerDifficulty, FALSE, MinerAddress),
         ExternalBlock(n, <<cb>>, ZeroHash, LedgerDifficulty, TRUE, MinerAddress)}

IdleFrame == [pc |-> "idle", selected |-> <<>>, block |-> <<>>]

\* what the last call returned: success and message of
\* addTransactionToMempool (with the submitted transaction), the boolean of
\* addBlock, the block (or none, for null) of minePendingTransactions with
\* the line it logged, or that the call threw
Ret(op, ok, message, tx, block, threw) ==
    [op |-> op, ok |-> ok, message |-> message, tx |-> tx, block |-> block,
     threw |-> threw]

GenesisBlock ==
    LET genesisTransaction ==
            NewTransaction("GENESIS", genesisAddress, genesisReward, 0,
                           GenesisTimestamp)
    IN  MineBlock(NewBlock(0, <<genesisTransaction>>, GenesisTimestamp,
                           ZeroHash, 0, GenesisDifficulty),
                  GenesisDifficulty, "GENESIS", FALSE).block

\* the ledger after createGenesisBlock, before loadBlockchain
FreshLedger(message) ==
    [chain |-> <<GenesisBlock>>, mempool |-> <<>>,
     balances |-> UpdateBalances(<<GenesisBlock>>),
     currentSupply |-> genesisReward, message |-> message]

\* loadBlockchain: the ledger's fields after it, and what it logged
LoadBlockchain(d, now) ==
    IF d.file = <<>>
    THEN FreshLedger("No existing blockchain found")
    ELSE IF ~d.file[1].parses
    THEN FreshLedger("Error loading blockchain")
    ELSE LET data == d.file[1].data
         IN  IF data.chain # <<>> /\ Len(data.chain[1]) > 1
             THEN LET ch == [i \in 1..Len(data.chain[1]) |->
                                BlockFromJSON(data.chain[1][i], now)]
                      entries == IF data.mempool = <<>> THEN <<>>
                                 ELSE data.mempool[1]
                  IN  IF \E i \in 1..Len(entries) : entries[i] = <<>>
                      THEN \* Transaction.fromJSON(null) throws after
                           \* this.chain has been assigned
                           [FreshLedger("Error loading blockchain") EXCEPT
                               !.chain = ch]
                      ELSE [chain |-> ch,
                            mempool |-> [i \in 1..Len(entries) |->
                                            TxFromJSON(entries[i][1], now)],
                            balances |-> IF data.balances = <<>> THEN <<>>
                                         ELSE data.balances[1],
                            currentSupply |->
                                IF data.currentSupply = <<>>
                                   \/ data.currentSupply[1] = 0
                                THEN genesisReward
                                ELSE data.currentSupply[1],
                            message |-> "Blockchain loaded"]
             ELSE FreshLedger("Using fresh genesis blockchain")

\* the constructor: createGenesisBlock, and no persisted chain to load
Init ==
    /\ chain = <<GenesisBlock>>
    /\ mempool = <<>>
    /\ balances = UpdateBalances(<<GenesisBlock>>)
    /\ isMining = FALSE
    /\ disk = NoStorage
    /\ difficulty = LedgerDifficulty
    /\ currentSupply = genesisReward
    /\ frame = IdleFrame
    /\ ret = Ret("constructor", TRUE, "", <<>>, <<>>, FALSE)

\* the push done before the checks
Submit_PushFirst(tx) ==
    LET r == SubmitResult(tx)
    IN  /\ mempool' = Append(mempool, tx)
        /\ ret' = Ret("addTransactionToMempool", r.success, r.message,
                      <<tx>>, <<>>, FALSE)
        /\ UNCHANGED <<disk, chain, balances, isMining, difficulty, currentSupply,
                       frame>>

\* addTransactionToMempool(tx)
Submit(tx) ==
    LET r == SubmitResult(tx)
    IN  /\ mempool' = IF r.success THEN Append(mempool, tx) ELSE mempool
        /\ ret' = Ret("addTransactionToMempool", r.success, r.message,
                      <<tx>>, <<>>, FALSE)
        /\ UNCHANGED <<disk, chain, balances, isMining, difficulty, currentSupply,
                       frame>>

AddTransactionToMempool ==
    /\ Len(mempool) < MaxMempool
    /\ \E tx \in TxInputs : Submit(tx)

\* a burst of BurstLen submissions into an empty mempool
AddBurstTransaction ==
    /\ frame.pc = "idle"
    /\ Len(chain) = 1
    /\ Len(mempool) < BurstLen
    /\ \A i \in 1..Len(mempool) : mempool[i] = BurstTx(i)
    /\ Submit(BurstTx(Len(mempool) + 1))

\* addBlock putting the block in the place of the tip
AddBlockCall_ReplaceTip(b) ==
    LET ok == AddBlockAccepts(b)
    IN  /\ chain' = IF ok /\ Len(chain) > 1
                    THEN Append(SubSeq(chain, 1, Len(chain) - 1), b)
                    ELSE IF ok THEN Append(chain, b) ELSE chain
        /\ balances' = IF ok THEN UpdateBalances(chain') ELSE balances
        /\ ret' = Ret("addBlock", ok, "", <<>>, <<>>, FALSE)
        /\ UNCHANGED <<disk, mempool, isMining, difficulty, currentSupply, frame>>

\* addBlock(newBlock)
AddBlockCall(b) ==
    LET ok == AddBlockAccepts(b)
    IN  /\ chain' = IF ok THEN Append(chain, b) ELSE chain
        /\ balances' = IF ok THEN UpdateBalances(chain') ELSE balances
        /\ ret' = Ret("addBlock", ok, "", <<>>, <<>>, FALSE)
        /\ UNCHANGED <<disk, mempool, isMining, difficulty, currentSupply, frame>>

AddBlock ==
    /\ Len(chain) < MaxChain
    /\ \E b \in ExternalBlocks : AddBlockCall(b)

\* the mined transactions removed from the mempool before addBlock answers
FinishMining_EvictFirst(b, selected, nested) ==
    /\ LET ok == AddBlockAccepts(b)
       IN  /\ chain' = IF ok THEN Append(chain, b) ELSE chain
           /\ balances' = IF ok THEN UpdateBalances(chain') ELSE balances
           /\ mempool' = RemoveMined(mempool, selected)
           /\ disk' = IF ok
                      THEN SaveBlockchain(disk, chain', mempool', balances',
                                          currentSupply)
                      ELSE disk
           /\ ret' = IF ok
                     THEN Ret("minePendingTransactions", TRUE,
                              "successfully mined and added", <<>>, <<b>>,
                              FALSE)
                     ELSE Ret("minePendingTransactions", FALSE,
                              "Failed to add mined block to chain!", <<>>,
                              <<>>, FALSE)
    /\ isMining' = FlagOnExit(FALSE)
    /\ frame' = IF nested THEN frame ELSE IdleFrame
    /\ UNCHANGED <<difficulty, currentSupply>>

\* minePendingTransactions from the append on: addBlock, the removal of the
\* mined transactions, the return value, and the finally clause
FinishMining(b, selected, nested) ==
    /\ LET ok == AddBlockAccepts(b)
       IN  /\ chain' = IF ok THEN Append(chain, b) ELSE chain
           /\ balances' = IF ok THEN UpdateBalances(chain') ELSE balances
           /\ mempool' = IF ok THEN RemoveMined(mempool, selected) ELSE mempool
           /\ disk' = IF ok
                      THEN SaveBlockchain(disk, chain', mempool', balances',
                                          currentSupply)
                      ELSE disk
           /\ ret' = IF ok
                     THEN Ret("minePendingTransactions", TRUE,
                              "successfully mined and added", <<>>, <<b>>,
                              FALSE)
                     ELSE Ret("minePendingTransactions", FALSE,
                              "Failed to add mined block to chain!", <<>>,
                              <<>>, FALSE)
    /\ isMining' = FlagOnExit(FALSE)
    /\ frame' = IF nested THEN frame ELSE IdleFrame
    /\ UNCHANGED <<difficulty, currentSupply>>

MinerInputs == {MinerAddress}

\* whether a progress callback is passed; a call made from inside the
\* callback passes none
CallbackInputs == IF frame.pc = "idle" THEN BOOLEAN ELSE {FALSE}

\* minePendingTransactions(minerAddress, callback, forceMine), up to its
\* return or to the first call of the progress callback
MineCall(minerAddress, cb, forceMine, now) ==
    IF MineIsNoOp(forceMine)
    THEN /\ ret' = Ret("minePendingTransactions", FALSE,
                       NoOpMessage(forceMine), <<>>, <<>>, FALSE)
         /\ isMining' = FlagOnEarlyReturn
         /\ UNCHANGED <<disk, chain, mempool, balances, difficulty, currentSupply,
                        frame>>
    ELSE LET selected == SelectTransactions(mempool)
             r == MineBlock(CandidateBlock(minerAddress, now), difficulty,
                            minerAddress, cb)
         IN  IF r.paused
             THEN /\ isMining' = TRUE
                  /\ frame' = [pc |-> "callback", selected |-> selected,
                               block |-> <<r.block>>]
                  /\ UNCHANGED <<disk, chain, mempool, balances, difficulty,
                                 currentSupply, ret>>
             ELSE FinishMining(r.block, selected, frame.pc = "callback")

MinePendingTransactions ==
    /\ Len(chain) < MaxChain
    /\ \E minerAddress \in MinerInputs, forceMine \in BOOLEAN,
          now \in Times, cb \in CallbackInputs :
            MineCall(minerAddress, cb, forceMine, now)

\* the progress callback returns and the search loop goes on
CallbackReturn ==
    /\ frame.pc = "callback"
    /\ LET r == MineLoop(frame.block[1], difficulty, TRUE)
       IN  IF r.paused
           THEN /\ frame' = [frame EXCEPT !.block = <<r.block>>]
                /\ UNCHANGED <<disk, chain, mempool, balances, isMining, difficulty,
                               currentSupply, ret>>
           ELSE FinishMining(r.block, frame.selected, FALSE)

\* the progress callback throws: the exception leaves mineBlock and
\* minePendingTransactions through the finally clause
CallbackThrow ==
    /\ frame.pc = "callback"
    /\ isMining' = FlagOnExit(TRUE)
    /\ frame' = IdleFrame
    /\ ret' = Ret("minePendingTransactions", FALSE, "exception", <<>>, <<>>,
                  TRUE)
    /\ UNCHANGED <<disk, chain, mempool, balances, difficulty, currentSupply>>

Next ==
    \/ AddTransactionToMempool
    \/ AddBurstTransaction
    \/ AddBlock
    \/ MinePendingTransactions
    \/ CallbackReturn
    \/ CallbackThrow

Spec == Init /\ [][Next]_vars

(***************************************************************************)
(* The whole interface of the ledger: the operations, addBlock with blocks *)
(* numbered as the caller likes, and the queries                           *)
(***************************************************************************)
\* array.reverse()
Reverse(q) == [i \in 1..Len(q) |-> q[Len(q) + 1 - i]]

\* this.chain.slice(-limit): the last limit blocks, the whole chain when
\* limit is 0 or above the length
SliceLast(ch, limit) ==
    IF limit = 0 \/ limit >= Len(ch) THEN ch
    ELSE SubSeq(ch, Len(ch) - limit + 1, Len(ch))

\* getRecentBlocks(limit)
GetRecentBlocks(ch, limit) == Reverse(SliceLast(ch, limit))

\* the chain reversed in place, without the copy
ChainAfterGetRecentBlocks_InPlace(ch, limit) == Reverse(ch)

\* this.chain after getRecentBlocks: slice made a copy, reverse acted on it
ChainAfterGetRecentBlocks(ch, limit) == ch

\* getBlockByIndex(index): the block, or none for null
GetBlockByIndex(ch, index) ==
    IF index + 1 \in 1..Len(ch) THEN <<ch[index + 1]>> ELSE <<>>

\* the positions <<block, transaction>> in the chain holding the txId
ChainHits(ch, txId) ==
    {<<i, j>> \in (1..Len(ch)) \X (1..MaxTxPerBlock + 1) :
        /\ j <= Len(ch[i].transactions)
        /\ ch[i].transactions[j].txId = txId}

\* getTransactionById(txId): the first hit in the chain with its block's
\* index, else the first in the mempool with -1, else none for null
GetTransactionById(ch, mp, txId) ==
    IF ChainHits(ch, txId) # {}
    THEN LET h == CHOOSE x \in ChainHits(ch, txId) :
                     \A y \in ChainHits(ch, txId) :
                         x[1] < y[1] \/ (x[1] = y[1] /\ x[2] <= y[2])
         IN  <<[transaction |-> ch[h[1]].transactions[h[2]],
                blockIndex |-> ch[h[1]].index]>>
    ELSE IF \E k \in 1..Len(mp) : mp[k].txId = txId
    THEN LET k == Min({i \in 1..Len(mp) : mp[i].txId = txId})
         IN  <<[transaction |-> mp[k], blockIndex |-> 0 - 1]>>
    ELSE <<>>

\* getBlockchainStats()
GetBlockchainStats ==
    [totalBlocks |-> Len(chain), mempoolSize |-> Len(mempool),
     currentSupply |-> currentSupply, difficulty |-> difficulty,
     halvingInterval |-> halvingInterval,
     currentReward |-> GetCurrentReward(chain),
     isChainValid |-> IsChainValid(chain)]

\* a block mined on the tip whose index is not the chain length
MisnumberedBlocks ==
    LET cb == NewTransaction("COINBASE", MinerAddress, miningReward, 0, 1)
    IN  {ExternalBlock(Len(chain) + 4, <<cb>>, GetLatestBlock(chain).hash,
                       LedgerDifficulty, TRUE, MinerAddress)}

ApiAddBlock ==
    /\ Len(chain) < MaxChain
    /\ \E b \in ExternalBlocks \cup MisnumberedBlocks : AddBlockCall(b)

\* what a query leaves alone
QueryFrame ==
    UNCHANGED <<mempool, balances, isMining, difficulty, currentSupply,
                frame, disk>>

QueryAddressInputs == {genesisAddress, "GSCnobody"}

GetBalanceQuery ==
    /\ \E address \in QueryAddressInputs :
          ret' = Ret("getBalance", TRUE, "",
                     <<[balance |-> GetBalance(address)]>>, <<>>, FALSE)
    /\ UNCHANGED chain
    /\ QueryFrame

QueryTxIdInputs ==
    {NewTransaction(genesisAddress, UserAddress, 10, 1, 1).txId,
     <<"sha256", "unknown">>}

GetTransactionByIdQuery ==
    /\ \E txId \in QueryTxIdInputs :
          ret' = Ret("getTransactionById", TRUE, "",
                     GetTransactionById(chain, mempool, txId), <<>>, FALSE)
    /\ UNCHANGED chain
    /\ QueryFrame

QueryIndexInputs == {1, 5}

GetBlockByIndexQuery ==
    /\ \E index \in QueryIndexInputs :
          ret' = Ret("getBlockByIndex", TRUE, "", <<>>,
                     GetBlockByIndex(chain, index), FALSE)
    /\ UNCHANGED chain
    /\ QueryFrame

QueryLimitInputs == {1, 10}

GetRecentBlocksQuery ==
    /\ \E limit \in QueryLimitInputs :
          /\ ret' = Ret("getRecentBlocks", TRUE, "", <<>>,
                        GetRecentBlocks(chain, limit), FALSE)
          /\ chain' = ChainAfterGetRecentBlocks(chain, limit)
    /\ QueryFrame

GetLatestBlockQuery ==
    /\ ret' = Ret("getLatestBlock", TRUE, "", <<>>,
                  <<GetLatestBlock(chain)>>, FALSE)
    /\ UNCHANGED chain
    /\ QueryFrame

IsChainValidQuery ==
    /\ ret' = Ret("isChainValid", IsChainValid(chain), "", <<>>, <<>>, FALSE)
    /\ UNCHANGED chain
    /\ QueryFrame

GetBlockchainStatsQuery ==
    /\ ret' = Ret("getBlockchainStats", TRUE, "", <<GetBlockchainStats>>,
                  <<>>, FALSE)
    /\ UNCHANGED chain
    /\ QueryFrame

ApiNext ==
    \/ AddTransactionToMempool
    \/ ApiAddBlock
    \/ MinePendingTransactions
    \/ CallbackReturn
    \/ CallbackThrow
    \/ GetBalanceQuery
    \/ GetTransactionByIdQuery
    \/ GetBlockByIndexQuery
    \/ GetRecentBlocksQuery
    \/ GetLatestBlockQuery
    \/ IsChainValidQuery
    \/ GetBlockchainStatsQuery

SpecApi == Init /\ [][ApiNext]_vars

(***************************************************************************)
(* The ledger with its file: constructed over a file left by an earlier    *)
(* run or by hand, used, and constructed again                             *)
(***************************************************************************)
\* a chain of two blocks as an earlier run left it
PersistedChain ==
    LET cb == NewTransaction("COINBASE", MinerAddress, miningReward + 1, 0, 1)
        pay == NewTransaction(genesisAddress, UserAddress, 250, 1, 1)
        nb == NewBlock(1, <<cb, pay>>, 1, GenesisBlock.hash, 0,
                       LedgerDifficulty)
    IN  <<GenesisBlock,
          MineBlock([nb EXCEPT !.reward = miningReward], LedgerDifficulty,
                    MinerAddress, FALSE).block>>

PersistedMempool == <<NewTransaction(genesisAddress, UserAddress, 10, 1, 1)>>

WholeDocument ==
    Document(PersistedChain, PersistedMempool, UpdateBalances(PersistedChain),
             genesisReward)

\* the parsed documents: as saved; with null in the mempool array; with the
\* chain alone; with the genesis block alone; without a chain
DocumentInputs ==
    {WholeDocument,
     [WholeDocument EXCEPT !.mempool = << <<<<>>>> >>],
     [WholeDocument EXCEPT !.mempool = <<>>, !.balances = <<>>,
                           !.currentSupply = <<>>],
     Document(<<GenesisBlock>>, PersistedMempool,
              UpdateBalances(PersistedChain), genesisReward),
     [WholeDocument EXCEPT !.chain = <<>>]}

\* no file, a file that is not JSON, a file holding one of the documents
FileInputs ==
    {<<>>, <<[parses |-> FALSE, data |-> WholeDocument]>>}
    \cup {<<[parses |-> TRUE, data |-> d]>> : d \in DocumentInputs}

DiskInputs == {[writable |-> w, file |-> f] : w \in BOOLEAN, f \in FileInputs}

\* new GSCBlockchain() over the file
PersistInit ==
    \E d \in DiskInputs, now \in Times :
        LET l == LoadBlockchain(d, now)
        IN  /\ disk = d
            /\ chain = l.chain
            /\ mempool = l.mempool
            /\ balances = l.balances
            /\ currentSupply = l.currentSupply
            /\ isMining = FALSE
            /\ difficulty = LedgerDifficulty
            /\ frame = IdleFrame
            /\ ret = Ret("constructor", TRUE, l.message, <<>>, <<>>, FALSE)

\* the process ends and new GSCBlockchain() runs over the file it left
Restart ==
    /\ frame.pc = "idle"
    /\ \E now \in Times :
       LET l == LoadBlockchain(disk, now)
       IN  /\ chain' = l.chain
           /\ mempool' = l.mempool
           /\ balances' = l.balances
           /\ currentSupply' = l.currentSupply
           /\ isMining' = FALSE
           /\ difficulty' = LedgerDifficulty
           /\ frame' = IdleFrame
           /\ ret' = Ret("constructor", TRUE, l.message, <<>>, <<>>, FALSE)
    /\ UNCHANGED disk

PersistNext ==
    \/ AddTransactionToMempool
    \/ AddBlock
    \/ MinePendingTransactions
    \/ CallbackReturn
    \/ CallbackThrow
    \/ Restart

SpecPersist == PersistInit /\ [][PersistNext]_vars

(***************************************************************************)
(* A block on its own: the constructor, then mineBlock                     *)
(***************************************************************************)
\* the transaction lists, previous hashes, initial nonces and difficulties
\* blocks are built and mined with
BlockTxInputs ==
    LET cb == NewTransaction("COINBASE", MinerAddress, miningReward, 0, 1)
        pay == NewTransaction(genesisAddress, UserAddress, 250, 1, 1)
    IN  {<<>>, <<cb>>, <<cb, pay>>}

BlockNonceInputs == {0, 999, 1199}

BlockDifficultyInputs == {0, GenesisDifficulty, LedgerDifficulty}

\* a block just built by the constructor, and the arguments mineBlock will
\* be called with
BlockInit ==
    /\ chain = <<>>
    /\ mempool = <<>>
    /\ balances = <<>>
    /\ isMining = FALSE
    /\ disk = NoStorage
    /\ difficulty = LedgerDifficulty
    /\ currentSupply = 0
    /\ ret = Ret("Block", TRUE, "", <<>>, <<>>, FALSE)
    /\ \E index \in 0..2, txs \in BlockTxInputs,
          timestamp \in {GenesisTimestamp} \cup Times,
          previousHash \in {ZeroHash, GenesisBlock.hash},
          nonce \in BlockNonceInputs, d \in BlockDifficultyInputs,
          cb \in BOOLEAN :
          frame = [pc |-> "built", d |-> d, cb |-> cb,
                   block |-> NewBlock(index, txs, timestamp, previousHash,
                                      nonce, d)]

\* mineBlock(d, miner, callback), up to its return or to the first call of
\* the progress callback
BlockMine ==
    /\ frame.pc = "built"
    /\ LET r == MineBlock(frame.block, frame.d, MinerAddress, frame.cb)
       IN  frame' = [frame EXCEPT !.block = r.block,
                        !.pc = IF r.paused THEN "callback" ELSE "mined"]
    /\ UNCHANGED <<disk, chain, mempool, balances, isMining, difficulty,
                   currentSupply, ret>>

\* the progress callback returns and the search loop goes on
BlockMineResume ==
    /\ frame.pc = "callback"
    /\ LET r == MineLoop(frame.block, frame.d, frame.cb)
       IN  frame' = [frame EXCEPT !.block = r.block,
                        !.pc = IF r.paused THEN "callback" ELSE "mined"]
    /\ UNCHANGED <<disk, chain, mempool, balances, isMining, difficulty,
                   currentSupply, ret>>

BlockNext == BlockMine \/ BlockMineResume

SpecBlock == BlockInit /\ [][BlockNext]_vars

(***************************************************************************)
(* Block.isValid on its own: a block built by the constructor, mined or    *)
(* not, with one of its fields possibly overwritten afterwards, checked    *)
(* with or without a previous block.                                       *)
(***************************************************************************)
ValidTxInputs ==
    BlockTxInputs
    \cup {<<NewTransaction("COINBASE", MinerAddress, miningReward, 0, 1),
            NewTransaction(genesisAddress, UserAddress, 0, 1, 1)>>}

Alterations ==
    {"none", "hash", "rehash", "merkleRoot", "difficulty", "negative"}

\* the block after the assignment to one of its fields
Altered(b, how) ==
    IF how = "hash" THEN [b EXCEPT !.hash = ZeroHash]
    ELSE IF how = "rehash" THEN [b EXCEPT !.hash = BlockCalculateHash(b)]
    ELSE IF how = "merkleRoot"
         THEN LET b1 == [b EXCEPT !.merkleRoot = ZeroHash]
              IN  [b1 EXCEPT !.hash = BlockCalculateHash(b1)]
    ELSE IF how = "difficulty" THEN [b EXCEPT !.difficulty = LedgerDifficulty]
    ELSE IF how = "negative" THEN [b EXCEPT !.difficulty = 0 - 1]
    ELSE b

ValidInit ==
    /\ chain = <<>>
    /\ mempool = <<>>
    /\ balances = <<>>
    /\ isMining = FALSE
    /\ disk = NoStorage
    /\ difficulty = LedgerDifficulty
    /\ currentSupply = 0
    /\ ret = Ret("Block", TRUE, "", <<>>, <<>>, FALSE)
    /\ \E txs \in ValidTxInputs, previousHash \in {ZeroHash, GenesisBlock.hash},
          d \in BlockDifficultyInputs, mined \in BOOLEAN,
          how \in Alterations, previous \in {<<>>, <<GenesisBlock>>} :
          frame = [pc |-> "block", previous |-> previous,
                   block |-> Altered(ExternalBlock(1, txs, previousHash, d,
                                                   mined, MinerAddress),
                                     how)]

\* block.isValid(previousBlock) or block.isValid()
BlockValidate ==
    /\ frame.pc = "block"
    /\ frame' = [frame EXCEPT !.pc = "validated"]
    /\ ret' = IF BlockIsValidThrows(frame.block, frame.previous)
               THEN Ret("Block.isValid", FALSE, "RangeError", <<>>,
                        <<frame.block>>, TRUE)
               ELSE Ret("Block.isValid",
                        IF frame.previous = <<>>
                        THEN BlockIsValidAlone(frame.block)
                        ELSE BlockIsValid(frame.block, frame.previous[1]),
                        "", <<>>, <<frame.block>>, FALSE)
    /\ UNCHANGED <<disk, chain, mempool, balances, isMining, difficulty,
                   currentSupply>>

ValidNext == BlockValidate

SpecValid == ValidInit /\ [][ValidNext]_vars

(***************************************************************************)
(* Transactions on their own: new Transaction(...), possibly with the      *)
(* stored identifier overwritten, then isValid().                          *)
(***************************************************************************)
TxSenderInputs == {"", "COINBASE", "GENESIS", genesisAddress}

TxReceiverInputs == {"", UserAddress}

TxAmountInputs == {NaN, 0 - 1, 0, 1, 10}

TxFeeInputs == {NaN, 0 - 1, 0, 1}

TxInit ==
    /\ chain = <<>>
    /\ mempool = <<>>
    /\ balances = <<>>
    /\ isMining = FALSE
    /\ disk = NoStorage
    /\ difficulty = LedgerDifficulty
    /\ currentSupply = 0
    /\ ret = Ret("Transaction", TRUE, "", <<>>, <<>>, FALSE)
    /\ \E sender \in TxSenderInputs, receiver \in TxReceiverInputs,
          amount \in TxAmountInputs, fee \in TxFeeInputs,
          forged \in BOOLEAN :
          LET tx == NewTransaction(sender, receiver, amount, fee, 1)
          IN  frame = [pc |-> "tx",
                       tx |-> IF forged
                              THEN [tx EXCEPT !.txId = <<"sha256", "forged">>]
                              ELSE tx]

\* tx.isValid()
TxValidate ==
    /\ frame.pc = "tx"
    /\ frame' = [pc |-> "checked", tx |-> frame.tx]
    /\ ret' = Ret("isValid", TxIsValid(frame.tx), "", <<frame.tx>>, <<>>,
                  FALSE)
    /\ UNCHANGED <<disk, chain, mempool, balances, isMining, difficulty,
                   currentSupply>>

TxNext == TxValidate

SpecTx == TxInit /\ [][TxNext]_vars

(***************************************************************************)
(* toJSON and fromJSON: a transaction or a block as the constructors,      *)
(* signTransaction, mineBlock or an earlier fromJSON left it, serialised   *)
(* and read back later                                                     *)
(***************************************************************************)
JsonTimestampInputs == {NoTimestamp, 0, 1}

\* Date.now() when the object is built, and when it is read back
JsonNowInputs == {1, 2}

\* the transactions: built by the constructor, then possibly signed, then
\* possibly carrying a txId that came from stored data
JsonTxInputs ==
    {[[NewTransaction(sender, genesisAddress, amount, fee,
                      TimestampOrNow(timestamp, now))
         EXCEPT !.signature = signature]
         EXCEPT !.txId = IF forged THEN <<"sha256", "stored">> ELSE @] :
        sender \in {"COINBASE", UserAddress}, amount \in {NaN, 0, 10},
        fee \in {NaN, 1}, timestamp \in JsonTimestampInputs,
        now \in JsonNowInputs, signature \in {"", "signed"}, forged \in BOOLEAN}

\* the blocks: built by the constructor at a given or a missing
\* timestamp, mined or not, with a field possibly overwritten as fromJSON
\* overwrites it
JsonBlockInputs ==
    {Altered(LET nb == NewBlock(1, txs, TimestampOrNow(timestamp, 1),
                                GenesisBlock.hash, 0, d)
             IN  IF mined
                 THEN MineBlock(nb, d, MinerAddress, FALSE).block
                 ELSE nb,
             how) :
        txs \in ValidTxInputs, timestamp \in JsonTimestampInputs,
        d \in {GenesisDifficulty, LedgerDifficulty}, mined \in BOOLEAN,
        how \in Alterations}

JsonInit ==
    /\ chain = <<>>
    /\ mempool = <<>>
    /\ balances = <<>>
    /\ isMining = FALSE
    /\ disk = NoStorage
    /\ difficulty = LedgerDifficulty
    /\ currentSupply = 0
    /\ ret = Ret("constructor", TRUE, "", <<>>, <<>>, FALSE)
    /\ \/ \E tx \in JsonTxInputs :
            frame = [pc |-> "object", tx |-> <<tx>>, block |-> <<>>]
       \/ \E b \in JsonBlockInputs :
            frame = [pc |-> "object", tx |-> <<>>, block |-> <<b>>]

\* Transaction.fromJSON(tx.toJSON())
TxRoundTrip ==
    /\ frame.pc = "object"
    /\ frame.tx # <<>>
    /\ \E now \in JsonNowInputs :
          ret' = Ret("Transaction.fromJSON", TRUE, "",
                     <<TxFromJSON(TxToJSON(frame.tx[1]), now)>>, <<>>, FALSE)
    /\ frame' = [frame EXCEPT !.pc = "read"]
    /\ UNCHANGED <<chain, mempool, balances, isMining, difficulty,
                   currentSupply, disk>>

\* Block.fromJSON(block.toJSON())
BlockRoundTrip ==
    /\ frame.pc = "object"
    /\ frame.block # <<>>
    /\ \E now \in JsonNowInputs :
          ret' = Ret("Block.fromJSON", TRUE, "", <<>>,
                     <<BlockFromJSON(BlockToJSON(frame.block[1]), now)>>,
                     FALSE)
    /\ frame' = [frame EXCEPT !.pc = "read"]
    /\ UNCHANGED <<chain, mempool, balances, isMining, difficulty,
                   currentSupply, disk>>

JsonNext == TxRoundTrip \/ BlockRoundTrip

SpecJson == JsonInit /\ [][JsonNext]_vars

(***************************************************************************)
(* updateBalances called twice over one chain, from any table              *)
(***************************************************************************)
\* the longest chain updateBalances is called over
MaxBalanceChain == 2

\* the blocks the chains are made of: genesis, and blocks with a reward
\* alone or with a transfer, mined (with a miner) or not (miner '')
BalanceBlockInputs ==
    LET cb == NewTransaction("COINBASE", MinerAddress, miningReward + 1, 0, 1)
        pay == NewTransaction(genesisAddress, UserAddress, 250, 1, 1)
    IN  {GenesisBlock}
        \cup {ExternalBlock(1, txs, GenesisBlock.hash, GenesisDifficulty,
                            mined, MinerAddress) :
                 txs \in {<<cb>>, <<cb, pay>>}, mined \in BOOLEAN}

BalanceChainInputs ==
    UNION {[1..n -> BalanceBlockInputs] : n \in 1..MaxBalanceChain}

\* the table before the first call: empty, that of the genesis chain, and
\* one with an address no block mentions
BalanceTableInputs ==
    {<<>>, UpdateBalances(<<GenesisBlock>>),
     [a \in {UserAddress, "GSCstale"} |-> 7]}

BalancesInit ==
    /\ mempool = <<>>
    /\ isMining = FALSE
    /\ disk = NoStorage
    /\ difficulty = LedgerDifficulty
    /\ currentSupply = genesisReward
    /\ ret = Ret("constructor", TRUE, "", <<>>, <<>>, FALSE)
    /\ chain \in BalanceChainInputs
    /\ balances \in BalanceTableInputs
    /\ frame = [pc |-> "balances", calls |-> 0, tables |-> <<>>]

\* updateBalances(); frame.tables keeps the table each call left
UpdateBalancesCall ==
    /\ frame.pc = "balances"
    /\ frame.calls < 2
    /\ balances' = UpdateBalancesFrom(balances, chain)
    /\ frame' = [frame EXCEPT !.calls = @ + 1,
                              !.tables = Append(@, balances')]
    /\ ret' = Ret("updateBalances", TRUE, "", <<>>, <<>>, FALSE)
    /\ UNCHANGED <<chain, mempool, isMining, difficulty, currentSupply,
                   disk>>

BalancesNext == UpdateBalancesCall

SpecBalances == BalancesInit /\ [][BalancesNext]_vars

(***************************************************************************)
(* calculateMerkleRoot over a transaction list and over a permutation of   *)
(* it.  The leaves are txIds as calculateHash returns them: digests of one *)
(* length, so that left + right determines left and right.                 *)
(***************************************************************************)
\* how many different transactions the lists are drawn from
MaxLeaves == 4

\* the k-th transaction the lists are drawn from
Leaf(k) == NewTransaction(genesisAddress, UserAddress, k, 1, 1)

\* the one-to-one lists of n positions out of 1..MaxLeaves
Arrangements(n) ==
    {f \in [1..n -> 1..MaxLeaves] : \A i, j \in 1..n : i # j => f[i] # f[j]}

\* the permutations of 1..n
Reorderings(n) ==
    {p \in [1..n -> 1..n] : \A i, j \in 1..n : i # j => p[i] # p[j]}

MerkleInit ==
    /\ chain = <<>>
    /\ mempool = <<>>
    /\ balances = <<>>
    /\ isMining = FALSE
    /\ disk = NoStorage
    /\ difficulty = LedgerDifficulty
    /\ currentSupply = 0
    /\ ret = Ret("Block", TRUE, "", <<>>, <<>>, FALSE)
    /\ \E n \in 2..MaxLeaves : \E f \in Arrangements(n), p \in Reorderings(n) :
          frame = [pc |-> "lists",
                   txs |-> [i \in 1..n |-> Leaf(f[i])],
                   permuted |-> [i \in 1..n |-> Leaf(f[p[i]])],
                   roots |-> <<>>]

\* calculateMerkleRoot() of a block holding the list, and of one holding
\* the permuted list
MerkleRoots ==
    /\ frame.pc = "lists"
    /\ frame' = [frame EXCEPT
                    !.pc = "rooted",
                    !.roots = <<CalculateMerkleRoot(
                                    NewBlock(1, frame.txs, 1, ZeroHash, 0, 0)),
                                CalculateMerkleRoot(
                                    NewBlock(1, frame.permuted, 1, ZeroHash,
                                             0, 0))>>]
    /\ ret' = Ret("calculateMerkleRoot", TRUE, "", <<>>, <<>>, FALSE)
    /\ UNCHANGED <<chain, mempool, balances, isMining, difficulty,
                   currentSupply, disk>>

MerkleNext == MerkleRoots

SpecMerkle == MerkleInit /\ [][MerkleNext]_vars

(***************************************************************************)
(* calculateMerkleRoot over two transaction lists that differ.  A list may *)
(* hold a transaction more than once: Block takes whatever list it is      *)
(* given, and isValid recomputes the root of whatever list the block has.  *)
(***************************************************************************)
\* the lists of 1 to MaxLeaves transactions drawn from three
CommitLists == UNION {[1..n -> {Leaf(1), Leaf(2), Leaf(3)}] : n \in 1..MaxLeaves}

\* whether list a comes before list b, to take each pair once
ListBefore(a, b) ==
    \/ Len(a) < Len(b)
    \/ /\ Len(a) = Len(b)
       /\ \E i \in 1..Len(a) :
             /\ a[i].amount < b[i].amount
             /\ \A j \in 1..(i - 1) : a[j] = b[j]

CommitInit ==
    /\ chain = <<>>
    /\ mempool = <<>>
    /\ balances = <<>>
    /\ isMining = FALSE
    /\ disk = NoStorage
    /\ difficulty = LedgerDifficulty
    /\ currentSupply = 0
    /\ ret = Ret("Block", TRUE, "", <<>>, <<>>, FALSE)
    /\ \E a \in CommitLists : \E b \in {l \in CommitLists : ListBefore(a, l)} :
          frame = [pc |-> "lists", txs |-> a, permuted |-> b, roots |-> <<>>]

\* calculateMerkleRoot() of a block holding each of the two lists
CommitNext == MerkleRoots

SpecCommit == CommitInit /\ [][CommitNext]_vars

(***************************************************************************)
(* The server: requests, the auto-mining timer and the mining jobs it      *)
(* schedules with setImmediate.  Every handler and every job runs to its   *)
(* end on the one thread; the progress callback only broadcasts.           *)
(* frame.isMining is miningState.isMining, frame.jobs the miner addresses  *)
(* of the scheduled jobs, oldest first.                                    *)
(***************************************************************************)
\* the scheduled jobs that have not run yet
MaxJobs == 2

\* minePendingTransactions(minerAddress, miningCallback): forceMine is left
\* to its default
ServerForceMine_Always == TRUE

ServerForceMine == FALSE

ServerFrame(mining, jobs) ==
    [pc |-> "serving", isMining |-> mining, jobs |-> jobs]

ServerInit ==
    /\ chain = <<GenesisBlock>>
    /\ mempool = <<>>
    /\ balances = UpdateBalances(<<GenesisBlock>>)
    /\ isMining = FALSE
    /\ disk = NoStorage
    /\ difficulty = LedgerDifficulty
    /\ currentSupply = genesisReward
    /\ frame = ServerFrame(FALSE, <<>>)
    /\ ret = Ret("constructor", TRUE, "", <<>>, <<>>, FALSE)

\* the request bodies of POST /api/blockchain/transactions
ServerSenderInputs == {genesisAddress, UserAddress}

ServerAmountInputs == {0, 10}

\* POST /api/blockchain/transactions
PostTransaction ==
    /\ Len(mempool) < MaxMempool
    /\ \E sender \in ServerSenderInputs, amount \in ServerAmountInputs,
          now \in Times :
          IF amount = 0
          THEN /\ ret' = Ret("POST transactions", FALSE,
                             "Missing required fields", <<>>, <<>>, FALSE)
               /\ UNCHANGED <<chain, mempool, balances, isMining,
                              difficulty, currentSupply, frame, disk>>
          ELSE Submit(NewTransaction(sender,
                                     IF sender = UserAddress
                                     THEN genesisAddress ELSE UserAddress,
                                     amount, 1, now))

\* POST /api/mining/start
PostMiningStart ==
    /\ Len(frame.jobs) < MaxJobs
    /\ \E minerAddress \in {"", MinerAddress} :
          IF minerAddress = ""
          THEN /\ ret' = Ret("POST mining/start", FALSE,
                             "Miner address is required", <<>>, <<>>, FALSE)
               /\ UNCHANGED frame
          ELSE IF frame.isMining
          THEN /\ ret' = Ret("POST mining/start", FALSE,
                             "Mining already in progress", <<>>, <<>>, FALSE)
               /\ UNCHANGED frame
          ELSE IF Len(mempool) = 0
          THEN /\ ret' = Ret("POST mining/start", TRUE,
                             "Waiting for transactions in mempool", <<>>,
                             <<>>, FALSE)
               /\ UNCHANGED frame
          ELSE /\ ret' = Ret("POST mining/start", TRUE, "Mining started",
                             <<>>, <<>>, FALSE)
               /\ frame' = ServerFrame(TRUE, Append(frame.jobs, minerAddress))
    /\ UNCHANGED <<chain, mempool, balances, isMining, difficulty,
                   currentSupply, disk>>

\* POST /api/mining/stop
PostMiningStop ==
    /\ frame' = ServerFrame(FALSE, frame.jobs)
    /\ ret' = Ret("POST mining/stop", TRUE, "Mining stopped", <<>>, <<>>,
                  FALSE)
    /\ UNCHANGED <<chain, mempool, balances, isMining, difficulty,
                   currentSupply, disk>>

\* the auto-mining timer fires
TimerTick ==
    /\ Len(frame.jobs) < MaxJobs
    /\ ~frame.isMining
    /\ Len(mempool) > 0
    /\ frame' = ServerFrame(TRUE, Append(frame.jobs, genesisAddress))
    /\ UNCHANGED <<chain, mempool, balances, isMining, difficulty,
                   currentSupply, ret, disk>>

\* whether a scheduled job can run
JobReady == frame.jobs # <<>> /\ Len(chain) < MaxChain

\* a scheduled job runs while Date.now() is now: minePendingTransactions to
\* its return, then miningState.isMining = false
RunMiningJobAt(now) ==
    /\ JobReady
    /\ frame' = ServerFrame(FALSE, Tail(frame.jobs))
    /\    LET minerAddress == Head(frame.jobs)
          IN  IF MineIsNoOp(ServerForceMine)
              THEN /\ ret' = Ret("minePendingTransactions", FALSE,
                                 NoOpMessage(ServerForceMine), <<>>, <<>>,
                                 FALSE)
                   /\ isMining' = FlagOnEarlyReturn
                   /\ UNCHANGED <<chain, mempool, balances, disk>>
              ELSE LET selected == SelectTransactions(mempool)
                       b == MineBlock(CandidateBlock(minerAddress, now),
                                      difficulty, minerAddress, FALSE).block
                       ok == AddBlockAccepts(b)
                   IN  /\ chain' = IF ok THEN Append(chain, b) ELSE chain
                       /\ balances' = IF ok THEN UpdateBalances(chain')
                                      ELSE balances
                       /\ mempool' = IF ok
                                     THEN RemoveMined(mempool, selected)
                                     ELSE mempool
                       /\ disk' = IF ok
                                  THEN SaveBlockchain(disk, chain', mempool',
                                                      balances',
                                                      currentSupply)
                                  ELSE disk
                       /\ ret' = IF ok
                                 THEN Ret("minePendingTransactions", TRUE,
                                          "successfully mined and added",
                                          <<>>, <<b>>, FALSE)
                                 ELSE Ret("minePendingTransactions", FALSE,
                                          "Failed to add mined block to chain!",
                                          <<>>, <<>>, FALSE)
                       /\ isMining' = FlagOnExit(FALSE)
    /\ UNCHANGED <<difficulty, currentSupply>>

RunMiningJob == \E now \in Times : RunMiningJobAt(now)

ServerNext ==
    \/ PostTransaction
    \/ PostMiningStart
    \/ PostMiningStop
    \/ TimerTick
    \/ RunMiningJob

SpecServer == ServerInit /\ [][ServerNext]_vars

(***************************************************************************)
(* The reward schedule over long chains.  Only the height of the chain     *)
(* matters to getCurrentReward, so the chain is its height; blocks are     *)
(* mined one by one around the ends of the halving intervals and in one    *)
(* stretch of equal reward in between.  The issued supply is kept in       *)
(* millions of GSC, rounded up.                                            *)
(***************************************************************************)
MaxIntervals == 66

\* totalSupply = 21750000000000, in millions of GSC
totalSupplyMega == 21750000

\* num / 2^exp rounded up to whole GSC
CeilGSC(r) ==
    IF r.exp >= 31 THEN (IF r.num > 0 THEN 1 ELSE 0)
    ELSE (r.num + (2 ^ r.exp) - 1) \div (2 ^ r.exp)

\* count blocks of reward r each, in millions of GSC, rounded up
MegaCeil(count, r) ==
    IF r <= 2000 THEN (count * r + 999999) \div 1000000
    ELSE ((count + 999) \div 1000) * ((r + 999) \div 1000)

RewardFrame(height, issuedMega) ==
    [pc |-> "reward", height |-> height, reward |-> RewardAtHeight(height),
     issuedMega |-> issuedMega]

\* the fresh ledger: genesis alone, the genesis grant issued
RewardInit ==
    /\ chain = <<>>
    /\ mempool = <<>>
    /\ balances = <<>>
    /\ isMining = FALSE
    /\ disk = NoStorage
    /\ difficulty = LedgerDifficulty
    /\ currentSupply = genesisReward
    /\ ret = Ret("constructor", TRUE, "", <<>>, <<>>, FALSE)
    /\ frame = RewardFrame(0, MegaCeil(1, genesisReward))

\* minePendingTransactions appends one block carrying newBlock.reward =
\* getCurrentReward()
MineOneBlock ==
    /\ frame.height < MaxIntervals * halvingInterval
    /\ frame.height % halvingInterval \in {halvingInterval - 1, 0, 1}
    /\ frame' = RewardFrame(frame.height + 1,
                    frame.issuedMega + MegaCeil(1, CeilGSC(frame.reward)))
    /\ UNCHANGED <<disk, chain, mempool, balances, isMining, difficulty,
                   currentSupply, ret>>

\* the same, repeated up to the last height before the next multiple of
\* the halving interval; every block of the stretch carries the same reward
MineToIntervalEnd ==
    /\ frame.height < MaxIntervals * halvingInterval
    /\ frame.height % halvingInterval = 2
    /\ LET count == halvingInterval - 3
       IN  frame' = RewardFrame(frame.height + count,
                       frame.issuedMega
                         + MegaCeil(count, CeilGSC(frame.reward)))
    /\ UNCHANGED <<disk, chain, mempool, balances, isMining, difficulty,
                   currentSupply, ret>>

RewardNext == MineOneBlock \/ MineToIntervalEnd

SpecReward == RewardInit /\ [][RewardNext]_vars

(***************************************************************************)
(* JavaScript numbers with fractions                                       *)
(*                                                                         *)
(* A Number is an IEEE 754 double: a sign and a magnitude of at most       *)
(* Precision significant bits.  The magnitude is written on a fixed grid   *)
(* as limbs of LimbBits bits, least significant first, the first FracLimbs *)
(* of them after the binary point.  Every double the ledger meets with     *)
(* amounts of tenths of a GSC (from 0.1 up, below 2^LimbBits) lies on the  *)
(* grid, and so does the exact sum of two of them before it is rounded.    *)
(***************************************************************************)
Precision == 53

LimbBits == 14

FracLimbs == 5

Limbs == FracLimbs + 1

Base == 2 ^ LimbBits

GridBits == Limbs * LimbBits

MagZero == [j \in 1..Limbs |-> 0]

\* bit i of the magnitude, bit 1 the least significant
BitAt(m, i) ==
    (m[((i - 1) \div LimbBits) + 1] \div (2 ^ ((i - 1) % LimbBits))) % 2

\* the position of the leading 1, 0 for zero
Top(m) == IF m = MagZero THEN 0
          ELSE CHOOSE i \in 1..GridBits :
                  /\ BitAt(m, i) = 1
                  /\ \A j \in (((i - 1) \div LimbBits) + 2)..Limbs : m[j] = 0
                  /\ m[((i - 1) \div LimbBits) + 1] < 2 ^ (((i - 1) % LimbBits) + 1)

MagLess(m, n) ==
    \E j \in 1..Limbs : m[j] < n[j] /\ \A k \in (j + 1)..Limbs : m[k] = n[k]

RECURSIVE MagAddFrom(_, _, _, _)
MagAddFrom(m, n, j, carry) ==
    IF j > Limbs THEN <<>>
    ELSE LET s == m[j] + n[j] + carry
         IN  <<s % Base>> \o MagAddFrom(m, n, j + 1, s \div Base)

\* m + n, exactly
MagAdd(m, n) == MagAddFrom(m, n, 1, 0)

RECURSIVE MagSubFrom(_, _, _, _)
MagSubFrom(m, n, j, borrow) ==
    IF j > Limbs THEN <<>>
    ELSE LET s == m[j] - n[j] - borrow
         IN  <<s % Base>> \o MagSubFrom(m, n, j + 1, IF s < 0 THEN 1 ELSE 0)

\* m - n, exactly, for m >= n
MagSub(m, n) == MagSubFrom(m, n, 1, 0)

\* the magnitude with its cut lowest bits cleared
ClearLow(m, cut) ==
    [j \in 1..Limbs |->
        IF j * LimbBits <= cut THEN 0
        ELSE IF (j - 1) * LimbBits >= cut THEN m[j]
        ELSE LET unit == 2 ^ (cut - (j - 1) * LimbBits)
             IN  (m[j] \div unit) * unit]

\* the magnitude of bit i alone
OneBit(i) ==
    [j \in 1..Limbs |->
        IF j = ((i - 1) \div LimbBits) + 1 THEN 2 ^ ((i - 1) % LimbBits)
        ELSE 0]

\* round to nearest, ties to even: the magnitude m, plus a remainder below
\* the grid when sticky, brought to Precision significant bits
RoundMag(m, sticky) ==
    LET cut == Top(m) - Precision
    IN  IF cut <= 0 THEN m
        ELSE LET below == sticky \/ \E i \in 1..(cut - 1) : BitAt(m, i) = 1
                 up == BitAt(m, cut) = 1 /\ (below \/ BitAt(m, cut + 1) = 1)
             IN  IF up THEN MagAdd(ClearLow(m, cut), OneBit(cut + 1))
                 ELSE ClearLow(m, cut)

Double(neg, mag) == [neg |-> neg /\ mag # MagZero, mag |-> mag]

RECURSIVE FractionLimbs(_, _, _)
\* the digits in base 2^LimbBits of r / d after the point, the most
\* significant last
FractionLimbs(r, d, count) ==
    IF count = 0 THEN <<>>
    ELSE FractionLimbs((r * Base) % d, d, count - 1) \o <<(r * Base) \div d>>

RECURSIVE FractionRest(_, _, _)
\* what is left of r / d after count digits
FractionRest(r, d, count) ==
    IF count = 0 THEN r ELSE FractionRest((r * Base) % d, d, count - 1)

\* the Number of a whole n, 0 <= n < 2^LimbBits
FromInt(n) == Double(FALSE, [j \in 1..Limbs |-> IF j = Limbs THEN n ELSE 0])

\* parseFloat of the decimal text of tenths / 10: the nearest double
ParseTenths(tenths) ==
    Double(FALSE,
           RoundMag(FractionLimbs(tenths % 10, 10, FracLimbs)
                        \o <<tenths \div 10>>,
                    FractionRest(tenths % 10, 10, FracLimbs) # 0))

\* -x
DoubleNeg(x) == Double(~x.neg, x.mag)

\* x + y of JavaScript: the exact sum, rounded
DoubleAdd(x, y) ==
    IF x.neg = y.neg THEN Double(x.neg, RoundMag(MagAdd(x.mag, y.mag), FALSE))
    ELSE IF MagLess(x.mag, y.mag)
    THEN Double(y.neg, RoundMag(MagSub(y.mag, x.mag), FALSE))
    ELSE Double(x.neg, RoundMag(MagSub(x.mag, y.mag), FALSE))

\* x - y
DoubleSub(x, y) == DoubleAdd(x, DoubleNeg(y))

\* x < y
DoubleLt(x, y) ==
    IF x.neg /\ ~y.neg THEN TRUE
    ELSE IF ~x.neg /\ y.neg THEN FALSE
    ELSE IF x.neg THEN MagLess(y.mag, x.mag)
    ELSE MagLess(x.mag, y.mag)

\* x <= y
DoubleLeq(x, y) == x = y \/ DoubleLt(x, y)

(***************************************************************************)
(* The ledger with amounts and fees of tenths of a GSC: the same calls     *)
(* with the arithmetic of Numbers.  minePendingTransactions is called      *)
(* without a progress callback.                                            *)
(***************************************************************************)
DoubleZero == FromInt(0)

TxIsValidD(tx) ==
    IF tx.sender = "" \/ tx.receiver = "" THEN FALSE
    ELSE IF DoubleLeq(tx.amount, DoubleZero) THEN FALSE
    ELSE IF DoubleLt(tx.fee, DoubleZero) THEN FALSE
    ELSE IF IsSystemSender(tx.sender) THEN TRUE
    ELSE tx.txId = TxCalculateHash(tx)

BlockIsValidD(b, previousBlock) ==
    IF b.hash # BlockCalculateHash(b) THEN FALSE
    ELSE IF b.previousHash # previousBlock.hash THEN FALSE
    ELSE IF ~MeetsTarget(b.hash, b.difficulty) THEN FALSE
    ELSE IF b.merkleRoot # CalculateMerkleRoot(b) THEN FALSE
    ELSE \A i \in 1..Len(b.transactions) : TxIsValidD(b.transactions[i])

\* this.balances[address] || 0
BalanceOfD(bal, address) ==
    IF address \in DOMAIN bal THEN bal[address] ELSE DoubleZero

\* if (!bal[a]) bal[a] = 0; then bal[a] becomes v
SetBalanceD(bal, a, v) ==
    [x \in DOMAIN bal \cup {a} |-> IF x = a THEN v ELSE bal[x]]

\* the body of the inner loop of updateBalances for one transaction
ApplyTransactionD(bal, tx, miner) ==
    LET b1 == IF ~IsSystemSender(tx.sender)
              THEN SetBalanceD(bal, tx.sender,
                       DoubleSub(BalanceOfD(bal, tx.sender),
                                 DoubleAdd(tx.amount, tx.fee)))
              ELSE bal
        b2 == SetBalanceD(b1, tx.receiver,
                  DoubleAdd(BalanceOfD(b1, tx.receiver), tx.amount))
    IN  IF tx.sender # "COINBASE" /\ miner # ""
        THEN SetBalanceD(b2, miner, DoubleAdd(BalanceOfD(b2, miner), tx.fee))
        ELSE b2

RECURSIVE ApplyBlockD(_, _, _)
ApplyBlockD(bal, txs, miner) ==
    IF txs = <<>> THEN bal
    ELSE ApplyBlockD(ApplyTransactionD(bal, Head(txs), miner), Tail(txs),
                     miner)

RECURSIVE ApplyChainD(_, _)
ApplyChainD(bal, ch) ==
    IF ch = <<>> THEN bal
    ELSE ApplyChainD(ApplyBlockD(bal, Head(ch).transactions, Head(ch).miner),
                     Tail(ch))

\* this.balances = {}; then every transaction of every block in chain order
UpdateBalancesD(ch) == ApplyChainD(<<>>, ch)

RECURSIVE SumCostD(_, _)
\* senderTxs.reduce((sum, tx) => sum + tx.amount + tx.fee, 0), from sum on
SumCostD(sum, txs) ==
    IF txs = <<>> THEN sum
    ELSE SumCostD(DoubleAdd(DoubleAdd(sum, Head(txs).amount), Head(txs).fee),
                  Tail(txs))

RECURSIVE SumFeeD(_, _)
\* selectedTransactions.reduce((sum, tx) => sum + tx.fee, 0), from sum on
SumFeeD(sum, txs) ==
    IF txs = <<>> THEN sum
    ELSE SumFeeD(DoubleAdd(sum, Head(txs).fee), Tail(txs))

IsTransactionValidD(tx) ==
    IF ~TxIsValidD(tx) THEN FALSE
    ELSE DoubleLeq(DoubleAdd(DoubleAdd(
                       SumCostD(DoubleZero, SenderTxs(mempool, tx.sender)),
                       tx.amount), tx.fee),
                   BalanceOfD(balances, tx.sender))

\* the returned {success, message} of addTransactionToMempool
SubmitResultD(tx) ==
    IF ~IsTransactionValidD(tx)
    THEN [success |-> FALSE, message |-> "Invalid transaction"]
    ELSE IF DoubleLt(BalanceOfD(balances, tx.sender),
                     DoubleAdd(tx.amount, tx.fee))
    THEN [success |-> FALSE, message |-> "Insufficient balance"]
    ELSE IF \E i \in 1..Len(mempool) : mempool[i].txId = tx.txId
    THEN [success |-> FALSE, message |-> "Transaction already in mempool"]
    ELSE [success |-> TRUE, message |-> "Transaction added to mempool"]

\* addTransactionToMempool(tx)
SubmitD(tx) ==
    LET r == SubmitResultD(tx)
    IN  /\ mempool' = IF r.success THEN Append(mempool, tx) ELSE mempool
        /\ ret' = Ret("addTransactionToMempool", r.success, r.message,
                      <<tx>>, <<>>, FALSE)
        /\ UNCHANGED <<disk, chain, balances, isMining, difficulty, currentSupply,
                       frame>>

\* the candidate block of minePendingTransactions, before it is mined
CandidateBlockD(minerAddress, now) ==
    LET selected == SelectTransactions(mempool)
        currentReward == FromInt(GetCurrentReward(chain))
        coinbase == NewTransaction("COINBASE", minerAddress,
                        DoubleAdd(currentReward, SumFeeD(DoubleZero, selected)),
                        DoubleZero, now)
        nb == NewBlock(Len(chain), <<coinbase>> \o selected, now,
                       GetLatestBlock(chain).hash, 0, difficulty)
    IN  [nb EXCEPT !.reward = currentReward, !.miner = minerAddress]

\* minePendingTransactions(minerAddress, undefined, forceMine)
MineCallD(minerAddress, forceMine, now) ==
    IF MineIsNoOp(forceMine)
    THEN /\ ret' = Ret("minePendingTransactions", FALSE,
                       NoOpMessage(forceMine), <<>>, <<>>, FALSE)
         /\ isMining' = FlagOnEarlyReturn
         /\ UNCHANGED <<disk, chain, mempool, balances, difficulty, currentSupply,
                        frame>>
    ELSE LET selected == SelectTransactions(mempool)
             b == MineBlock(CandidateBlockD(minerAddress, now), difficulty,
                            minerAddress, FALSE).block
             ok == BlockIsValidD(b, GetLatestBlock(chain))
         IN  /\ chain' = IF ok THEN Append(chain, b) ELSE chain
             /\ balances' = IF ok THEN UpdateBalancesD(chain') ELSE balances
             /\ mempool' = IF ok THEN RemoveMined(mempool, selected)
                           ELSE mempool
             /\ disk' = IF ok
                        THEN SaveBlockchain(disk, chain', mempool', balances',
                                            currentSupply)
                        ELSE disk
             /\ ret' = IF ok
                       THEN Ret("minePendingTransactions", TRUE,
                                "successfully mined and added", <<>>, <<b>>,
                                FALSE)
                       ELSE Ret("minePendingTransactions", FALSE,
                                "Failed to add mined block to chain!", <<>>,
                                <<>>, FALSE)
             /\ isMining' = FlagOnExit(FALSE)
             /\ UNCHANGED <<difficulty, currentSupply, frame>>

\* createGenesisBlock
GenesisBlockD ==
    LET genesisTransaction ==
            NewTransaction("GENESIS", genesisAddress, FromInt(genesisReward),
                           DoubleZero, GenesisTimestamp)
    IN  MineBlock(NewBlock(0, <<genesisTransaction>>, GenesisTimestamp,
                           ZeroHash, 0, GenesisDifficulty),
                  GenesisDifficulty, "GENESIS", FALSE).block

\* the constructor: createGenesisBlock, and no persisted chain to load
DoubleInit ==
    /\ chain = <<GenesisBlockD>>
    /\ mempool = <<>>
    /\ balances = UpdateBalancesD(<<GenesisBlockD>>)
    /\ isMining = FALSE
    /\ disk = NoStorage
    /\ difficulty = LedgerDifficulty
    /\ currentSupply = genesisReward
    /\ frame = IdleFrame
    /\ ret = Ret("constructor", TRUE, "", <<>>, <<>>, FALSE)

\* transactions a caller submits, amounts and fees in tenths of a GSC: the
\* genesis address pays the user 0.5, the user pays 0.3 with a fee of 0.1
\* and 0.1 with no fee
DoubleTxInputs ==
    {NewTransaction(genesisAddress, UserAddress, ParseTenths(5),
                    ParseTenths(0), 1),
     NewTransaction(UserAddress, genesisAddress, ParseTenths(3),
                    ParseTenths(1), 1),
     NewTransaction(UserAddress, MinerAddress, ParseTenths(1),
                    ParseTenths(0), 1)}

AddTransactionToMempoolD ==
    /\ Len(mempool) < MaxMempool
    /\ \E tx \in DoubleTxInputs : SubmitD(tx)

\* the values Date.now() takes when a block is built
DoubleTimes == Times \cup {2}

MinePendingTransactionsD ==
    /\ Len(chain) < MaxChain
    /\ \E minerAddress \in MinerInputs, forceMine \in BOOLEAN,
          now \in DoubleTimes :
            MineCallD(minerAddress, forceMine, now)

DoubleNext ==
    \/ AddTransactionToMempoolD
    \/ MinePendingTransactionsD

SpecDouble == DoubleInit /\ [][DoubleNext]_vars

(***************************************************************************)
(* Submissions in the order of the clock: every transaction is constructed *)
(* when it is submitted, one millisecond after the last accepted one, so   *)
(* that its timestamp tells when it was accepted.  Mining runs with the    *)
(* progress callback, and submissions arrive during it as well.            *)
(***************************************************************************)
RECURSIVE CountTransfers(_)
\* the transactions of the chain that are neither rewards nor the genesis
\* allocation
CountTransfers(ch) ==
    IF ch = <<>> THEN 0
    ELSE Len(SelectSeq(Head(ch).transactions,
                       LAMBDA t : ~IsSystemSender(t.sender)))
            + CountTransfers(Tail(ch))

\* how many submissions have been accepted so far
AcceptedCount == Len(mempool) + CountTransfers(chain)

\* what callers submit at the clock's k-th millisecond: a small transfer of
\* the genesis address, or a transfer of the user with a fee
ClockTxInputs(k) ==
    {BurstTx(k), NewTransaction(UserAddress, genesisAddress, 1, 1, 100 + k)}

\* addTransactionToMempool(new Transaction(...)) while the queue is short
AddFreshTransaction ==
    /\ Len(mempool) < MaxMempool
    /\ \E tx \in ClockTxInputs(AcceptedCount + 1) : Submit(tx)

\* the same in a burst that fills the queue beyond the cap of a block
AddFreshBurstTransaction ==
    /\ Len(chain) = 1
    /\ Len(mempool) < BurstLen
    /\ Submit(BurstTx(AcceptedCount + 1))

OrderNext ==
    \/ AddFreshTransaction
    \/ AddFreshBurstTransaction
    \/ MinePendingTransactions
    \/ CallbackReturn
    \/ CallbackThrow

SpecOrder == Init /\ [][OrderNext]_vars

(***************************************************************************)
(* The ledger used through addTransactionToMempool and                     *)
(* minePendingTransactions alone                                           *)
(***************************************************************************)
MiningNext ==
    \/ AddTransactionToMempool
    \/ AddBurstTransaction
    \/ MinePendingTransactions
    \/ CallbackReturn
    \/ CallbackThrow

SpecMining == Init /\ [][MiningNext]_vars

(***************************************************************************)
(* Callers that use the names of the system senders as addresses           *)
(***************************************************************************)
\* transfers to the addresses named COINBASE and GENESIS, and transactions
\* that name them as sender
SentinelTxInputs ==
    {NewTransaction(genesisAddress, "COINBASE", 10, 1, 1),
     NewTransaction(genesisAddress, "GENESIS", 10, 1, 1),
     NewTransaction("COINBASE", UserAddress, 5, 0, 1),
     NewTransaction("GENESIS", UserAddress, 5, 1, 1),
     NewTransaction(genesisAddress, UserAddress, 10, 1, 1)}

AddSentinelTransaction ==
    /\ Len(mempool) < MaxMempool
    /\ \E tx \in SentinelTxInputs : Submit(tx)

SentinelNext ==
    \/ AddSentinelTransaction
    \/ MinePendingTransactions
    \/ CallbackReturn
    \/ CallbackThrow

SpecSentinel == Init /\ [][SentinelNext]_vars

(***************************************************************************)
(* Mining again and again: minePendingTransactions is called repeatedly    *)
(* (as the auto-mining timer does every 30 seconds), each time at whatever *)
(* the clock shows, while transactions keep arriving.  The chain of the    *)
(* model is bounded, so a submission is made only while the blocks still   *)
(* to come have room for the queue with it.                                *)
(***************************************************************************)
(* Mining again and again: the auto-mining timer of the server schedules   *)
(* a job whenever the queue is not empty and no mining is in flight, the   *)
(* job mines at whatever the clock shows, and transactions keep arriving.  *)
(* The chain of the model is bounded, so a submission is made only while   *)
(* the blocks still to come have room for the queue with it.               *)
(***************************************************************************)
\* the values Date.now() takes from one job to the next
LiveTimes == Times \cup {2}

\* how many blocks n queued transactions need
BlocksNeeded(n) == (n + MaxTxPerBlock - 1) \div MaxTxPerBlock

\* how many submissions the callers make in all
LiveSubmissions == BurstLen + 1

\* POST /api/blockchain/transactions with a transfer that is accepted
AddLiveTransaction ==
    /\ Len(mempool) < BurstLen
    /\ AcceptedCount < LiveSubmissions
    /\ Len(chain) + BlocksNeeded(Len(mempool) + 1) <= MaxChain
    /\ Submit(BurstTx(AcceptedCount + 1))

RunLiveJob == \E now \in LiveTimes : RunMiningJobAt(now)

LiveNext ==
    \/ AddLiveTransaction
    \/ TimerTick
    \/ RunLiveJob

\* The job mining at time now changes frame, so it is enabled exactly when
\* JobReady holds: this is strong fairness of RunMiningJobAt(now), the
\* scheduled jobs being run and the clock not standing still.
JobFairness(now) == <>[]~JobReady \/ []<><<RunMiningJobAt(now)>>_vars

\* the timer keeps firing, and what it schedules is run
SpecLive ==
    /\ ServerInit
    /\ [][LiveNext]_vars
    /\ WF_vars(TimerTick)
    /\ \A now \in LiveTimes : JobFairness(now)

(***************************************************************************)
(* The WebSocket provider of the client.  frame.socket is the state of the *)
(* socket in wsRef.current; frame.orphans counts the sockets that connect  *)
(* replaced in wsRef.current while they were not closed (their handlers    *)
(* stay attached); frame.attempts is reconnectAttempts.current;            *)
(* frame.refTimer tells whether the timeout in reconnectTimeoutRef.current *)
(* is pending, frame.timers counts the pending timeouts the ref no longer  *)
(* points to; frame.disconnected tells whether disconnect() was called     *)
(* (the provider is unmounted).                                            *)
(***************************************************************************)
maxReconnectAttempts == 5

\* the sockets replaced while not closed
MaxOrphans == 1

\* the pending timeouts the ref no longer points to
MaxTimers == 1

SocketFrame(socket, orphans, attempts, refTimer, timers, connected,
            disconnected) ==
    [pc |-> "socket", socket |-> socket, orphans |-> orphans,
     attempts |-> attempts, refTimer |-> refTimer, timers |-> timers,
     isConnected |-> connected, disconnected |-> disconnected]

\* wsRef.current.readyState is CONNECTING, OPEN or CLOSING
SocketLive(f) == f.socket \in {"connecting", "open", "closing"}

\* connect(): wsRef.current = new WebSocket(WS_URL)
ConnectCall(f) ==
    [f EXCEPT !.socket = "connecting",
              !.orphans = IF SocketLive(f) THEN @ + 1 ELSE @]

\* the onclose handler: setIsConnected(false), then the reconnect timeout
\* unless the attempts are used up
OnClose(f) ==
    LET f1 == [f EXCEPT !.isConnected = FALSE]
    IN  IF f1.attempts < maxReconnectAttempts
        THEN [f1 EXCEPT !.attempts = @ + 1,
                        !.timers = IF f1.refTimer THEN @ + 1 ELSE @,
                        !.refTimer = TRUE]
        ELSE f1

\* whether the model has room for the timeout a close event may leave behind
TimerRoom(f) ==
    f.refTimer /\ f.attempts < maxReconnectAttempts => f.timers < MaxTimers

\* the provider after useEffect has called connect()
SocketInit ==
    /\ chain = <<>>
    /\ mempool = <<>>
    /\ balances = <<>>
    /\ isMining = FALSE
    /\ disk = NoStorage
    /\ difficulty = LedgerDifficulty
    /\ currentSupply = 0
    /\ ret = Ret("connect", TRUE, "", <<>>, <<>>, FALSE)
    /\ frame = SocketFrame("connecting", 0, 0, FALSE, 0, FALSE, FALSE)

SocketUnchanged ==
    UNCHANGED <<chain, mempool, balances, isMining, difficulty, currentSupply,
                disk, ret>>

\* the open event of the socket in wsRef.current: onopen
SocketOpens ==
    /\ frame.socket = "connecting"
    /\ frame' = [frame EXCEPT !.socket = "open", !.isConnected = TRUE,
                              !.attempts = 0]
    /\ SocketUnchanged

\* the close event of the socket in wsRef.current (the server or the network
\* closed it, the connection failed, or close() has done its work): onclose
SocketCloses ==
    /\ SocketLive(frame)
    /\ TimerRoom(frame)
    /\ frame' = OnClose([frame EXCEPT !.socket = "closed"])
    /\ SocketUnchanged

\* the close event of a replaced socket: the same onclose
OrphanCloses ==
    /\ frame.orphans > 0
    /\ TimerRoom(frame)
    /\ frame' = OnClose([frame EXCEPT !.orphans = @ - 1])
    /\ SocketUnchanged

\* a reconnect timeout fires: connect()
ReconnectTimerFires ==
    /\ SocketLive(frame) => frame.orphans < MaxOrphans
    /\ \/ /\ frame.refTimer
          /\ frame' = ConnectCall([frame EXCEPT !.refTimer = FALSE])
       \/ /\ frame.timers > 0
          /\ frame' = ConnectCall([frame EXCEPT !.timers = @ - 1])
    /\ SocketUnchanged

\* a consumer of the context calls connect() while the provider is mounted
UserConnect ==
    /\ ~frame.disconnected
    /\ SocketLive(frame) => frame.orphans < MaxOrphans
    /\ frame' = ConnectCall(frame)
    /\ SocketUnchanged

\* disconnect(), as the cleanup of useEffect calls it on unmount:
\* clearTimeout of the timeout in the ref, close() of the socket in the ref
Disconnect ==
    /\ ~frame.disconnected
    /\ frame' = [frame EXCEPT
                    !.refTimer = FALSE,
                    !.socket = IF @ \in {"connecting", "open"}
                               THEN "closing" ELSE @,
                    !.disconnected = TRUE]
    /\ SocketUnchanged

SocketNext ==
    \/ SocketOpens
    \/ SocketCloses
    \/ OrphanCloses
    \/ ReconnectTimerFires
    \/ UserConnect
    \/ Disconnect

SpecSocket == SocketInit /\ [][SocketNext]_vars

(***************************************************************************)
(* Properties                                                              *)
(***************************************************************************)
Cost(tx) == tx.amount + tx.fee

\* what the sender's transactions already in the mempool spend
Pending(sender) == SumCost(SenderTxs(mempool, sender))

\* C1: a submission is accepted only if what its sender already has pending
\* in the mempool plus its own amount + fee is at most the sender's balance;
\* a valid transaction affordable alone is accepted when its sender has none
\* pending (and it is no duplicate), and rejected when the sender's pending
\* transactions plus it exceed the balance.
C1_DoubleSpendAdmission ==
    [][\A tx \in TxInputs : Submit(tx) =>
          /\ ret'.ok => Pending(tx.sender) + Cost(tx) <= GetBalance(tx.sender)
          /\ ret'.ok => mempool' = Append(mempool, tx)
          /\ ( /\ TxIsValid(tx)
               /\ Cost(tx) <= GetBalance(tx.sender)
               /\ Pending(tx.sender) = 0
               /\ \A i \in 1..Len(mempool) : mempool[i].txId # tx.txId )
             => ret'.ok
          /\ ( /\ Cost(tx) <= GetBalance(tx.sender)
               /\ Pending(tx.sender) + Cost(tx) > GetBalance(tx.sender) )
             => (~ret'.ok /\ mempool' = mempool)]_vars

\* the second of two transfers of one sender was rejected, though valid and
\* affordable alone, because of the first one, which is in the mempool
C1_Witness ==
    /\ ret.op = "addTransactionToMempool"
    /\ ~ret.ok
    /\ TxIsValid(ret.tx[1])
    /\ Cost(ret.tx[1]) <= GetBalance(ret.tx[1].sender)
    /\ Len(mempool) = 1
    /\ mempool[1].sender = ret.tx[1].sender
    /\ Cost(mempool[1]) <= GetBalance(ret.tx[1].sender)
    /\ Cost(mempool[1]) + Cost(ret.tx[1]) > GetBalance(ret.tx[1].sender)

RECURSIVE SumSeq(_)
SumSeq(q) == IF q = <<>> THEN 0 ELSE Head(q) + SumSeq(Tail(q))

\* what one transaction of a block with the given miner adds to address a
Contribution(a, tx, miner) ==
      (IF tx.receiver = a THEN tx.amount ELSE 0)
    - (IF tx.sender = a /\ ~IsSystemSender(tx.sender) THEN Cost(tx) ELSE 0)
    + (IF miner = a /\ tx.sender # "COINBASE" THEN tx.fee ELSE 0)

BlockNet(a, b) ==
    SumSeq([j \in 1..Len(b.transactions) |->
               Contribution(a, b.transactions[j], b.miner)])

ChainNet(a, ch) == SumSeq([i \in 1..Len(ch) |-> BlockNet(a, ch[i])])

\* the addresses some transaction of the chain debits or credits
Touched(ch) ==
    UNION {UNION {
        {ch[i].transactions[j].receiver}
        \cup (IF IsSystemSender(ch[i].transactions[j].sender)
              THEN {} ELSE {ch[i].transactions[j].sender})
        \cup (IF ch[i].transactions[j].sender # "COINBASE" /\ ch[i].miner # ""
              THEN {ch[i].miner} ELSE {})
        : j \in 1..Len(ch[i].transactions)} : i \in 1..Len(ch)}

\* C2: the balance table is exactly the net effect of every transaction of
\* every block of the chain: a sender other than COINBASE/GENESIS is debited
\* amount + fee, the receiver is credited the amount, the block's miner is
\* credited the fee of every transaction whose sender is not COINBASE, and
\* no other address has an entry.
C2_BalancesAreChainFold ==
    /\ DOMAIN balances = Touched(chain)
    /\ \A a \in DOMAIN balances : balances[a] = ChainNet(a, chain)

\* a chain of three blocks in which a transfer with a fee was mined
C2_Witness ==
    /\ Len(chain) >= 3
    /\ \E i \in 2..Len(chain) : \E j \in 1..Len(chain[i].transactions) :
          /\ chain[i].transactions[j].sender = genesisAddress
          /\ chain[i].transactions[j].fee > 0
          /\ chain[i].miner = MinerAddress
    /\ GetBalance(MinerAddress) > 0
    /\ GetBalance(genesisAddress) < genesisReward

\* C3: on a fresh ledger (balance of the genesis address 255), after an
\* accepted submission genesis -> X of amount a and fee f the mempool has
\* size 1, and minePendingTransactions(M) returns a block of exactly 2
\* transactions (the COINBASE reward to M and the submitted one), after
\* which balance(genesis) = 255 - (a + f), balance(X) = a,
\* balance(M) = currentReward + f and the mempool is empty.
C3_EndToEndScenario ==
    [][\A tx \in TxInputs, now \in Times, forceMine \in BOOLEAN :
          ( /\ Len(chain) = 1
            /\ frame.pc = "idle"
            /\ mempool = <<tx>>
            /\ tx.sender = genesisAddress
            /\ tx.receiver = UserAddress
            /\ MineCall(MinerAddress, FALSE, forceMine, now)
            /\ ret'.ok )
          => /\ GetBalance(genesisAddress) = 255
             /\ Len(ret'.block[1].transactions) = 2
             /\ ret'.block[1].transactions[1].sender = "COINBASE"
             /\ ret'.block[1].transactions[1].receiver = MinerAddress
             /\ ret'.block[1].transactions[2] = tx
             /\ BalanceOf(balances', genesisAddress) = 255 - Cost(tx)
             /\ BalanceOf(balances', UserAddress) = tx.amount
             /\ BalanceOf(balances', MinerAddress)
                   = GetCurrentReward(chain) + tx.fee
             /\ mempool' = <<>>]_vars

\* C4: addBlock(block) changes nothing and returns false when
\* block.isValid(tip) is false; when it is true the chain grows by exactly
\* that block, the balances are those of the new chain, and it returns true.
C4_AddBlockNoOpOnInvalid ==
    [][ret'.op = "addBlock" =>
        \A b \in ExternalBlocks : AddBlockCall(b) =>
          IF BlockIsValid(b, chain[Len(chain)])
          THEN /\ ret'.ok
               /\ chain' = Append(chain, b)
               /\ \A a \in DOMAIN balances' \cup Touched(chain') :
                     BalanceOf(balances', a) = ChainNet(a, chain')
               /\ mempool' = mempool
          ELSE /\ ~ret'.ok
               /\ UNCHANGED <<disk, chain, balances, mempool>>]_vars

\* addBlock has just rejected a block, on a chain that holds a block
\* appended by addBlock (the only blocks declaring difficulty 1 after genesis)
C4_Witness ==
    /\ ret.op = "addBlock"
    /\ ~ret.ok
    /\ \E i \in 2..Len(chain) : chain[i].difficulty = GenesisDifficulty

\* C5: isChainValid() holds after every sequence of calls: every block at
\* position i >= 1 has the previous block's hash as previousHash, a stored
\* hash equal to its recomputation and meeting the block's difficulty, a
\* Merkle root equal to its recomputation, and only valid transactions.
C5_ChainStaysValid ==
    \A i \in 2..Len(chain) :
        /\ chain[i].previousHash = chain[i - 1].hash
        /\ chain[i].hash = BlockCalculateHash(chain[i])
        /\ LeadingZeros(chain[i].hash) >= chain[i].difficulty
        /\ chain[i].merkleRoot = CalculateMerkleRoot(chain[i])
        /\ \A j \in 1..Len(chain[i].transactions) :
              TxIsValid(chain[i].transactions[j])

\* a chain holding a block mined by the ledger (it records the reward) and a
\* block appended by addBlock (it records none)
C5_Witness ==
    /\ Len(chain) >= 3
    /\ \E i \in 2..Len(chain) : chain[i].reward = miningReward
    /\ \E i \in 2..Len(chain) : chain[i].reward = 0

\* C6: the ledger's difficulty stays 5, and the hash of every block after
\* genesis has at least that many leading zero hex digits.
C6_FixedDifficulty ==
    /\ difficulty = 5
    /\ \A i \in 2..Len(chain) : LeadingZeros(chain[i].hash) >= difficulty

\* C7: minePendingTransactions selects the first min(10, |mempool|)
\* transactions of the mempool in queue order; when the append succeeds it
\* returns the appended block, whose transactions after the reward are the
\* selected ones, and the mempool is the mempool before the append with that
\* prefix removed, the rest in order.
C7_SelectionAndEviction ==
    [][/\ (frame.pc = "idle" /\ frame'.pc = "callback")
            => frame'.selected
                  = SubSeq(mempool, 1, Min({10, Len(mempool)}))
       /\ ( /\ ret'.op = "minePendingTransactions"
            /\ ret'.ok
            /\ Len(chain') > Len(chain) )
          => LET blk == chain'[Len(chain')]
                 sel == Tail(blk.transactions)
                 k == Len(sel)
             IN  /\ ret'.block = <<blk>>
                 /\ chain' = Append(chain, blk)
                 /\ IF frame.pc = "callback"
                    THEN sel = frame.selected
                    ELSE k = Min({10, Len(mempool)})
                 /\ k <= Len(mempool)
                 /\ sel = SubSeq(mempool, 1, k)
                 /\ mempool' = SubSeq(mempool, k + 1, Len(mempool))]_vars

\* a block of the reward and 10 transactions was mined out of a mempool of
\* more than 10, and the rest is still queued
C7_Witness ==
    /\ ret.op = "minePendingTransactions"
    /\ ret.ok
    /\ Len(ret.block[1].transactions) = 11
    /\ Len(mempool) >= 1
    /\ mempool[1] = BurstTx(11)

\* C8: minePendingTransactions called with an empty mempool and no
\* forceMine, or while a mining operation is in flight, returns null and
\* leaves the chain, the mempool, the balances and isMining as they were.
C8_MineNoOp ==
    [][\A m \in MinerInputs, cb \in BOOLEAN, forceMine \in BOOLEAN,
          now \in Times :
          ( /\ \/ Len(mempool) = 0 /\ ~forceMine
               \/ frame.pc = "callback"
            /\ MineCall(m, cb, forceMine, now) )
          => /\ ret'.op = "minePendingTransactions"
             /\ ~ret'.ok
             /\ ret'.block = <<>>
             /\ ~ret'.threw
             /\ UNCHANGED <<disk, chain, mempool, balances, isMining>>]_vars

\* a call made from the progress callback, with transactions queued,
\* returned null because mining was in progress
C8_Witness ==
    /\ frame.pc = "callback"
    /\ ret.op = "minePendingTransactions"
    /\ ret.message = "Mining already in progress..."
    /\ Len(mempool) > 0
    /\ isMining

\* C9: isMining is true exactly while a minePendingTransactions call is
\* between taking the flag and returning (so it is false after every such
\* return, also after an exception), and a call made while it is true
\* appends nothing.
C9_SingleMiner ==
    /\ [](isMining <=> frame.pc = "callback")
    /\ [][\A m \in MinerInputs, cb \in BOOLEAN, forceMine \in BOOLEAN,
             now \in Times :
             (isMining /\ MineCall(m, cb, forceMine, now))
                => (chain' = chain /\ ret'.block = <<>>)]_vars

\* the progress callback threw and the flag is clear again
C9_Witness ==
    /\ ret.op = "minePendingTransactions"
    /\ ret.threw
    /\ ~isMining
    /\ frame.pc = "idle"

\* C10: after mineBlock(d, miner) on a block built by the constructor, the
\* hash has at least d leading zeros and equals calculateHash() of the
\* block's fields, also when the hash computed by the constructor already
\* met the target and the search loop never ran.
C10_MiningPostcondition ==
    frame.pc = "mined" =>
        /\ MeetsTarget(frame.block.hash, frame.d)
        /\ frame.block.hash = BlockCalculateHash(frame.block)

\* C11: getCurrentReward() returns the base reward at height 0, the base
\* reward divided by 2^k once k halving intervals have completed (height >=
\* k * halvingInterval), so half of it at height = halvingInterval, and 0
\* once 64 intervals have completed.
C11_RewardHalving ==
    frame.pc = "reward" =>
        LET k == frame.height \div halvingInterval
        IN  IF k >= 64 THEN frame.reward.num = 0
            ELSE frame.reward = [num |-> miningReward, exp |-> k]

\* C12: the issued supply, the genesis grant plus the reward of every mined
\* block, never exceeds totalSupply.
C12_SupplyCap ==
    frame.pc = "reward" => frame.issuedMega <= totalSupplyMega

\* blocks were mined through every halving until the reward reached 0
C12_Witness ==
    /\ frame.pc = "reward"
    /\ frame.height > 64 * halvingInterval + 1
    /\ frame.reward.num = 0
    /\ frame.issuedMega > 100

\* values a stored hash is overwritten with
TamperHashes == {ZeroHash, <<"sha256", "tampered">>}

\* C13: on a chain on which isChainValid() is true, overwriting the stored
\* hash of any one block (genesis and the tip included, a chain of the
\* genesis block alone included) with another value makes it false.
C13_TamperDetected ==
    IsChainValid(chain) =>
        \A i \in 1..Len(chain) : \A h \in TamperHashes :
            h # chain[i].hash =>
                ~IsChainValid([chain EXCEPT ![i].hash = h])

\* C15: isValid() is true exactly when sender and receiver are non-empty,
\* amount > 0, fee >= 0, and the sender is COINBASE or GENESIS or the stored
\* txId is the hash of the fields; a system sender passes with any txId.
C15_TxIsValidIff ==
    ret.op = "isValid" =>
        LET tx == ret.tx[1]
        IN  ret.ok <=>
              /\ tx.sender # "" /\ tx.receiver # ""
              /\ tx.amount # NaN /\ tx.amount > 0
              /\ tx.fee # NaN /\ tx.fee >= 0
              /\ \/ IsSystemSender(tx.sender)
                 \/ tx.txId = TxCalculateHash(tx)

\* C14: isValid(previousBlock) returns true exactly when the stored hash is the
\* recomputed one, no previous block is passed or previousHash is its hash,
\* the hash has at least the stored difficulty leading zeros, the stored
\* Merkle root is the recomputed one, and every transaction is valid; the
\* block is the same after the call.
C14_BlockIsValidIff ==
    ret.op = "Block.isValid" =>
        LET b == frame.block
        IN  /\ ret.block = <<b>>
            /\ (ret.ok /\ ~ret.threw) <=>
                  /\ b.hash = BlockCalculateHash(b)
                  /\ \/ frame.previous = <<>>
                     \/ b.previousHash = frame.previous[1].hash
                  /\ LeadingZeros(b.hash) >= b.difficulty
                  /\ b.merkleRoot = CalculateMerkleRoot(b)
                  /\ \A i \in 1..Len(b.transactions) :
                        TxIsValid(b.transactions[i])

Queued(id) == \E i \in 1..Len(mempool) : mempool[i].txId = id

\* C16: no two entries of the mempool have the same txId, and a submission
\* whose txId is already in the mempool is rejected and leaves it as it was.
C16_MempoolUnique ==
    /\ [](\A i, j \in 1..Len(mempool) :
            i # j => mempool[i].txId # mempool[j].txId)
    /\ [][ret'.op = "addTransactionToMempool" =>
            LET tx == ret'.tx[1]
            IN  Submit(tx) /\ Queued(tx.txId) =>
                    ~ret'.ok /\ mempool' = mempool]_vars

\* a transfer already queued was submitted again and turned away as a
\* duplicate
C16_Witness ==
    /\ ret.op = "addTransactionToMempool"
    /\ ret.message = "Transaction already in mempool"
    /\ ~ret.ok
    /\ Queued(ret.tx[1].txId)
    /\ Len(mempool) = 1

\* C17: a rejected submission (invalid transaction, pending spends plus
\* its cost above the balance, or txId already queued) returns success
\* false with a message and leaves mempool, chain and balances as they were;
\* an accepted one returns success true and the mempool is the previous one
\* with the transaction appended at the end, chain and balances unchanged.
C17_SubmitEffect ==
    [][ret'.op = "addTransactionToMempool" =>
        LET tx == ret'.tx[1]
            rejected == \/ ~TxIsValid(tx)
                        \/ Pending(tx.sender) + Cost(tx) > GetBalance(tx.sender)
                        \/ Queued(tx.txId)
        IN  Submit(tx) =>
              /\ ~ret'.threw
              /\ chain' = chain
              /\ balances' = balances
              /\ IF rejected
                 THEN ~ret'.ok /\ ret'.message # "" /\ mempool' = mempool
                 ELSE ret'.ok /\ mempool' = Append(mempool, tx)]_vars

\* a second transfer was accepted behind one already queued, and the ledger
\* is otherwise as constructed
C17_Witness ==
    /\ ret.op = "addTransactionToMempool"
    /\ ret.ok
    /\ Len(mempool) = 2
    /\ mempool[2] = ret.tx[1]
    /\ mempool[1] # mempool[2]
    /\ Len(chain) = 1

MiningFailed == "Failed to add mined block to chain!"

\* C18: when minePendingTransactions has mined its candidate and addBlock
\* rejects it, the call returns null, mempool, chain and balances are as
\* before, the file is not written, and isMining is false.
C18_FailedAppend ==
    [][ret'.message = MiningFailed /\ frame'.pc = "idle"
       /\ (CallbackReturn \/ MinePendingTransactions) =>
          /\ ret'.op = "minePendingTransactions"
          /\ ~ret'.ok /\ ret'.block = <<>> /\ ~ret'.threw
          /\ mempool' = mempool
          /\ chain' = chain
          /\ balances' = balances
          /\ disk' = disk
          /\ ~isMining']_vars

\* the candidate was rejected with a transfer queued and writable storage
C18_Witness ==
    /\ ret.op = "minePendingTransactions"
    /\ ret.message = MiningFailed
    /\ frame.pc = "idle"
    /\ disk.writable
    /\ Len(mempool) >= 1
    /\ ~isMining

\* the persisted document has a chain of more than one block
StoredChainLoads ==
    /\ disk.file # <<>>
    /\ disk.file[1].parses
    /\ disk.file[1].data.chain # <<>>
    /\ Len(disk.file[1].data.chain[1]) > 1

\* C19: after construction, if the persisted document's chain has more than
\* one block, chain, mempool, balances and currentSupply are the persisted
\* ones (an absent key counting as empty, and as the genesis supply);
\* otherwise (genesis alone, no chain, no file, no JSON) the ledger is the
\* fresh one: genesis chain, empty mempool, genesis balances.  Construction
\* does not throw.
C19_LoadAtConstruction ==
    ret.op = "constructor" /\ frame.pc = "idle" =>
        /\ ~ret.threw
        /\ IF StoredChainLoads
           THEN LET data == disk.file[1].data
                    entries == IF data.mempool = <<>> THEN <<>>
                               ELSE data.mempool[1]
                IN  /\ Len(chain) = Len(data.chain[1])
                    /\ \A i \in 1..Len(chain) : \E now \in Times :
                          chain[i] = BlockFromJSON(data.chain[1][i], now)
                    /\ Len(mempool) = Len(entries)
                    /\ \A i \in 1..Len(entries) :
                          /\ entries[i] # <<>>
                          /\ \E now \in Times :
                                mempool[i] = TxFromJSON(entries[i][1], now)
                    /\ balances = IF data.balances = <<>> THEN <<>>
                                  ELSE data.balances[1]
                    /\ currentSupply = IF data.currentSupply = <<>>
                                       THEN genesisReward
                                       ELSE data.currentSupply[1]
           ELSE /\ chain = <<GenesisBlock>>
                /\ mempool = <<>>
                /\ balances = UpdateBalances(<<GenesisBlock>>)

\* C20: every mined block that is appended is followed by saveBlockchain,
\* and whether or not the write succeeds the call returns the new block,
\* the chain is extended by it, the balances are recomputed and the mined
\* transactions are out of the mempool.
C20_SaveFailureKeepsAppend ==
    [][ret'.op = "minePendingTransactions" /\ ret'.ok /\ frame'.pc = "idle"
       /\ (CallbackReturn \/ MinePendingTransactions) =>
          /\ ret'.block # <<>>
          /\ chain' = Append(chain, ret'.block[1])
          /\ balances' = UpdateBalances(chain')
          /\ LET mined == ret'.block[1].transactions
             IN  /\ \A i \in 2..Len(mined) : ~\E j \in 1..Len(mempool') :
                        mempool'[j].txId = mined[i].txId
                 /\ Len(mempool') = Len(mempool) - (Len(mined) - 1)
          /\ IF disk.writable
             THEN disk'.file = <<[parses |-> TRUE,
                                  data |-> Document(chain', mempool',
                                                    balances',
                                                    currentSupply')]>>
             ELSE disk' = disk]_vars

\* a block with a transfer was mined and appended while the file could not
\* be written
C20_Witness ==
    /\ ret.op = "minePendingTransactions"
    /\ ret.ok
    /\ ~disk.writable
    /\ disk.file = <<>>
    /\ Len(chain) = 2
    /\ Len(chain[2].transactions) = 2
    /\ mempool = <<>>

\* whether isValid() throws, and what it returns otherwise
BlockVerdict(b) ==
    IF BlockIsValidThrows(b, <<>>) THEN "throws"
    ELSE IF BlockIsValidAlone(b) THEN "true" ELSE "false"

\* C21: fromJSON(toJSON(x)) has every field equal to x's, for transactions
\* and for blocks; the stored txId, hash and Merkle root are kept when they
\* do not match the contents, and isValid answers the same before and after.
C21_JsonRoundTrip ==
    /\ ret.op = "Transaction.fromJSON" =>
          LET t == frame.tx[1]
              u == ret.tx[1]
          IN  /\ u.sender = t.sender /\ u.receiver = t.receiver
              /\ u.amount = t.amount /\ u.fee = t.fee
              /\ u.timestamp = t.timestamp /\ u.signature = t.signature
              /\ u.txId = t.txId
              /\ TxIsValid(u) = TxIsValid(t)
    /\ ret.op = "Block.fromJSON" =>
          LET b == frame.block[1]
              c == ret.block[1]
          IN  /\ c.index = b.index /\ c.timestamp = b.timestamp
              /\ c.transactions = b.transactions
              /\ c.previousHash = b.previousHash /\ c.nonce = b.nonce
              /\ c.difficulty = b.difficulty /\ c.hash = b.hash
              /\ c.merkleRoot = b.merkleRoot /\ c.miner = b.miner
              /\ c.reward = b.reward
              /\ BlockVerdict(c) = BlockVerdict(b)

\* a transaction whose stored txId is not the hash of its contents came
\* back with that txId and is still invalid
C21_Witness ==
    /\ ret.op = "Transaction.fromJSON"
    /\ frame.tx[1].txId # TxCalculateHash(frame.tx[1])
    /\ ret.tx[1].txId = frame.tx[1].txId
    /\ ~IsSystemSender(frame.tx[1].sender)
    /\ ~TxIsValid(ret.tx[1])

\* C22: every block the server appended after genesis carries, behind its
\* reward transaction, at least one transaction taken from the mempool.
C22_NoEmptyBlock ==
    \A i \in 2..Len(chain) :
        /\ Len(chain[i].transactions) >= 2
        /\ \E j \in 2..Len(chain[i].transactions) :
              chain[i].transactions[j].sender # "COINBASE"

\* two jobs were scheduled for one transaction (a stop request in
\* between); the second found the mempool empty and mined nothing
C22_Witness ==
    /\ frame.pc = "serving"
    /\ Len(chain) = 2
    /\ ret.op = "minePendingTransactions"
    /\ ret.message = "No transactions in mempool"
    /\ frame.jobs = <<>>

\* C23: for a list of at least 2 transactions with pairwise different
\* txIds, every permutation that differs from the list has a different
\* Merkle root, for even and odd lengths.
C23_MerkleOrderSensitive ==
    ret.op = "calculateMerkleRoot" =>
        (frame.permuted # frame.txs => frame.roots[1] # frame.roots[2])

\* a list of three, where the last leaf is paired with itself, and the list
\* with its last two transactions exchanged have different roots
C23_Witness ==
    /\ ret.op = "calculateMerkleRoot"
    /\ Len(frame.txs) = 3
    /\ frame.permuted = <<frame.txs[1], frame.txs[3], frame.txs[2]>>
    /\ frame.roots[1] # frame.roots[2]

\* C24: updateBalances called twice in a row over the same chain leaves
\* the same balance table both times, whatever the chain and the table
\* before the first call.
C24_UpdateBalancesIdempotent ==
    ret.op = "updateBalances" /\ frame.calls = 2 =>
        /\ frame.tables[1] = frame.tables[2]
        /\ balances = frame.tables[1]

\* two calls over a chain with a transfer, started from a table holding an
\* address the chain does not mention
C24_Witness ==
    /\ ret.op = "updateBalances"
    /\ frame.calls = 2
    /\ Len(chain) = 2
    /\ Len(chain[2].transactions) = 2
    /\ "GSCstale" \notin DOMAIN balances
    /\ BalanceOf(balances, UserAddress) > 0

QueryOps ==
    {"getBalance", "getTransactionById", "getBlockByIndex",
     "getRecentBlocks", "getLatestBlock", "isChainValid",
     "getBlockchainStats"}

\* C25: a query (getBalance, getTransactionById, getBlockByIndex,
\* getRecentBlocks, getLatestBlock, isChainValid, getBlockchainStats)
\* leaves chain, mempool, balances, currentSupply and isMining as they were.
C25_QueriesArePure ==
    [][ret'.op \in QueryOps /\ frame' = frame =>
          /\ chain' = chain
          /\ mempool' = mempool
          /\ balances' = balances
          /\ currentSupply' = currentSupply
          /\ isMining' = isMining]_vars

\* getRecentBlocks answered with the newest block first while the chain of
\* three blocks kept its order
C25_Witness ==
    /\ ret.op = "getRecentBlocks"
    /\ Len(chain) = 3
    /\ Len(ret.block) = 3
    /\ ret.block[1] = chain[3]
    /\ chain[1] = GenesisBlock

\* C26: across every step of the operations and the queries the chain is
\* the old chain or the old chain with one block appended, and position 0
\* holds the genesis block.
C26_AppendOnly ==
    /\ [](chain[1] = GenesisBlock)
    /\ [][\/ chain' = chain
          \/ /\ Len(chain') = Len(chain) + 1
             /\ SubSeq(chain', 1, Len(chain)) = chain]_vars

\* a chain of three: genesis, a block appended by addBlock, a block mined
\* with a transfer
C26_Witness ==
    /\ Len(chain) = 3
    /\ chain[1] = GenesisBlock
    /\ ret.op = "minePendingTransactions"
    /\ ret.ok
    /\ ret.block = <<chain[3]>>
    /\ Len(chain[3].transactions) = 2
    /\ Len(chain[2].transactions) = 1

\* C27: every block's index is its position in the chain, genesis at 0,
\* for blocks appended by minePendingTransactions and by addBlock.
C27_IndexIsPosition ==
    \A i \in 1..Len(chain) : chain[i].index = i - 1

\* the block b is composed as minePendingTransactions composes it in the
\* current state
ComposedHere(b) ==
    LET reward == GetCurrentReward(chain)
        queued == SubSeq(mempool, 1, Min({MaxTxPerBlock, Len(mempool)}))
    IN  /\ b.index = Len(chain)
        /\ b.previousHash = chain[Len(chain)].hash
        /\ b.difficulty = difficulty
        /\ b.miner \in MinerInputs
        /\ b.reward = reward
        /\ Len(b.transactions) = Len(queued) + 1
        /\ b.transactions[1].sender = "COINBASE"
        /\ b.transactions[1].receiver = b.miner
        /\ b.transactions[1].amount = reward + SumSeq([i \in 1..Len(queued) |->
                                                         queued[i].fee])
        /\ b.transactions[1].fee = 0
        /\ Tail(b.transactions) = queued

\* the two blocks differ in nonce and hash at most
SameComposition(b, c) ==
    [b EXCEPT !.nonce = 0, !.hash = ZeroHash]
        = [c EXCEPT !.nonce = 0, !.hash = ZeroHash]

\* C28: the block minePendingTransactions builds has index = chain length,
\* previousHash = tip hash, the ledger's difficulty, the given miner,
\* reward = getCurrentReward(), and as transactions one COINBASE
\* transaction to the miner of reward + selected fees with fee 0, then the
\* selected transactions in queue order; mining changes none of this.
C28_CandidateComposition ==
    [][/\ frame.pc = "idle" /\ frame'.pc = "callback" =>
            ComposedHere(frame'.block[1])
       /\ frame.pc = "idle" /\ frame'.pc = "idle"
            /\ ret'.op = "minePendingTransactions" /\ ret'.ok
            /\ Len(chain') = Len(chain) + 1 =>
            ComposedHere(ret'.block[1])
       /\ frame.pc = "callback" /\ frame'.pc = "callback" =>
            SameComposition(frame.block[1], frame'.block[1])
       /\ frame.pc = "callback" /\ frame'.pc = "idle"
            /\ ret'.op = "minePendingTransactions" /\ ret'.ok =>
            SameComposition(frame.block[1], ret'.block[1])]_vars

\* a block with the reward transaction and the first ten of eleven queued
\* transactions was mined
C28_Witness ==
    /\ ret.op = "minePendingTransactions"
    /\ ret.ok
    /\ Len(ret.block[1].transactions) = MaxTxPerBlock + 1
    /\ Len(mempool) = 1

\* C30: from a fresh genesis ledger, after any sequence of
\* addTransactionToMempool and minePendingTransactions calls, every
\* address's balance is >= 0.
C30_BalancesNonNegative ==
    \A a \in DOMAIN balances : DoubleLeq(DoubleZero, balances[a])

\* the transfers of the chain with their places: block i, position j
ChainPlaces ==
    {<<i, j>> \in (1..Len(chain)) \X (1..(MaxTxPerBlock + 1)) :
        /\ j <= Len(chain[i].transactions)
        /\ ~IsSystemSender(chain[i].transactions[j].sender)}

PlacedTx(p) == chain[p[1]].transactions[p[2]]

\* C29: if transaction A was accepted into the mempool before transaction B
\* and both are in the chain, A's block index is <= B's, and A precedes B
\* when they are in the same block.  (The queue grows by accepted
\* submissions only, and a transaction accepted later carries a later
\* timestamp than all accepted before it.)
C29_SubmissionOrderKept ==
    /\ [](\A p, q \in ChainPlaces :
            PlacedTx(p).timestamp < PlacedTx(q).timestamp =>
                /\ chain[p[1]].index <= chain[q[1]].index
                /\ p[1] = q[1] => p[2] < q[2])
    /\ [][Len(mempool') > Len(mempool) =>
            /\ ret'.op = "addTransactionToMempool" /\ ret'.ok
            /\ mempool' = Append(mempool, ret'.tx[1])
            /\ \A i \in 1..Len(mempool) :
                    mempool[i].timestamp < ret'.tx[1].timestamp
            /\ \A p \in ChainPlaces :
                    PlacedTx(p).timestamp < ret'.tx[1].timestamp]_vars

\* eleven transfers were accepted in a row and mined into two blocks, the
\* first ten in one and the eleventh in the next
C29_Witness ==
    /\ Len(chain) = 3
    /\ Len(chain[2].transactions) = MaxTxPerBlock + 1
    /\ \E p, q \in ChainPlaces :
            /\ p[1] = 2 /\ q[1] = 3
            /\ PlacedTx(p).timestamp < PlacedTx(q).timestamp

\* C31: a transaction identifier appears at most once in the whole chain:
\* a transaction that is in an appended block is rejected when it is
\* submitted again, so it is never mined into a second block.
C31_NoReplay ==
    \A p, q \in ChainPlaces : p # q => PlacedTx(p).txId # PlacedTx(q).txId

RECURSIVE SumOver(_, _)
\* the sum of the balances of the addresses in S
SumOver(bal, S) ==
    IF S = {} THEN 0
    ELSE LET a == CHOOSE x \in S : TRUE
         IN  bal[a] + SumOver(bal, S \ {a})

RECURSIVE SumRewards(_)
\* the sum of the reward fields of the blocks
SumRewards(ch) ==
    IF ch = <<>> THEN 0 ELSE Head(ch).reward + SumRewards(Tail(ch))

\* C32: the sum of all balances equals the genesis grant plus the sum of
\* the recorded rewards of the mined blocks; fees only move value from
\* senders to the miner.
C32_ValueConserved ==
    SumOver(balances, DOMAIN balances)
        = genesisReward + SumRewards(Tail(chain))

\* C33: a minePendingTransactions call that is not a no-op (no mining in
\* flight, and a non-empty mempool or forceMine) appends exactly one block
\* and returns it, whatever the first hash of the candidate is.
C33_MiningAppends ==
    [][/\ ret'.op = "minePendingTransactions"
       /\ frame'.pc = "idle"
       /\ ~ret'.threw
       /\ ret'.message \notin {NoOpMessage(TRUE), NoOpMessage(FALSE)}
       => /\ ret'.ok
          /\ ret'.block # <<>>
          /\ chain' = Append(chain, ret'.block[1])]_vars

\* C34: no transaction whose sender is COINBASE or GENESIS is accepted by
\* addTransactionToMempool, so the only such transactions in the chain are
\* the genesis transaction and the reward transaction that comes first in
\* each mined block, also after coins were sent to an address named
\* COINBASE or GENESIS.
C34_NoSystemSenderAccepted ==
    /\ \A i \in 1..Len(mempool) : ~IsSystemSender(mempool[i].sender)
    /\ \A i \in 1..Len(chain) : \A j \in 2..Len(chain[i].transactions) :
            ~IsSystemSender(chain[i].transactions[j].sender)

\* C35: the current supply that getBlockchainStats reports equals the
\* genesis grant plus the sum of the rewards of the blocks mined so far.
C35_SupplyTracksIssuance ==
    GetBlockchainStats.currentSupply
        = genesisReward + SumRewards(Tail(chain))

\* the transaction is in a block of the chain
Mined(tx) ==
    \E i \in 1..Len(chain) : \E j \in 1..Len(chain[i].transactions) :
        chain[i].transactions[j] = tx

\* the transactions the callers submit
LiveTxs == {BurstTx(k) : k \in 1..LiveSubmissions}

C37_OneMiningTask ==
    /\ frame.jobs # <<>> => frame.isMining
    /\ Len(frame.jobs) <= 1

\* C38: the Merkle root commits to the transaction list: two lists that
\* differ, in length or in the transaction at some position, have different
\* roots (the digest taken as collision-free), also when one is the other
\* with its last transaction repeated.
C38_MerkleRootCommits ==
    frame.pc = "rooted" /\ frame.txs # frame.permuted
        => frame.roots[1] # frame.roots[2]

\* a step in which connect() makes a new socket: the socket in the ref is a
\* connecting one that was not there before
NewConnection ==
    /\ frame'.socket = "connecting"
    /\ frame.socket # "connecting" \/ frame'.orphans > frame.orphans

\* C39: the shutdown of the WebSocket client is final: once disconnect()
\* has been called no further connection attempt is made; the close that
\* disconnect() causes schedules no reconnect.
C39_DisconnectIsFinal ==
    [][frame.disconnected => ~NewConnection]_vars
====
